---- MODULE Spec2Model ----
(***************************************************************************)
(* Gin Rummy rules engine of deadwood: card model (cards.rs), meld         *)
(* analysis (meld.rs) and the round state machine (game.rs).               *)
(*                                                                         *)
(* A card is the integer (rank - 1) * 4 + suit, rank in 1..13 and suit in  *)
(* 0..3 (Clubs, Diamonds, Hearts, Spades), so that the integer order is    *)
(* the derived Ord of struct Card { rank, suit }.  Vectors are sequences;  *)
(* the top of a pile is the last element.                                  *)
(***************************************************************************)
EXTENDS Integers, Sequences, FiniteSets, TLC

\* ------------------------------------------------------------------------
\* cards.rs
\* ------------------------------------------------------------------------
HAND_SIZE == 10

Clubs == 0
Diamonds == 1
Hearts == 2
Spades == 3

SuitALL == <<Clubs, Diamonds, Hearts, Spades>>

RankALL == <<1, 2, 3, 4, 5, 6, 7, 8, 9, 10, 11, 12, 13>>

Card(rank, suit) == (rank - 1) * 4 + suit

RankOf(c) == (c \div 4) + 1

SuitOf(c) == c % 4

RankValue(r) == IF r >= 10 THEN 10 ELSE r

CardValue(c) == RankValue(RankOf(c))

\* ------------------------------------------------------------------------
\* Vec helpers
\* ------------------------------------------------------------------------
Range(s) == {s[i] : i \in 1..Len(s)}

Contains(s, x) == \E i \in 1..Len(s) : s[i] = x

Sort(s) == SortSeq(s, LAMBDA a, b : a < b)

\* Vec::remove(index), index counted from 0
RemoveAt(s, index) == [i \in 1..(Len(s) - 1) |-> IF i <= index THEN s[i] ELSE s[i + 1]]

Last_UnderTop(s) == IF Len(s) >= 2 THEN s[Len(s) - 1] ELSE s[Len(s)]

Last(s) == s[Len(s)]

Front_KeepsTop(s) == s

\* what Vec::pop leaves
Front(s) == SubSeq(s, 1, Len(s) - 1)

Filter(s, Keep(_)) == SelectSeq(s, Keep)

RECURSIVE Flatten(_)
Flatten(ss) == IF ss = <<>> THEN <<>> ELSE Head(ss) \o Flatten(Tail(ss))

RECURSIVE SumValues(_)
SumValues(cards) == IF cards = <<>> THEN 0 ELSE CardValue(Head(cards)) + SumValues(Tail(cards))

\* ------------------------------------------------------------------------
\* meld.rs
\* ------------------------------------------------------------------------
SetKind == "Set"

RunKind == "Run"

MeldNew(kind, cards) == [kind |-> kind, cards |-> Sort(cards)]

MeldContains(meld, card) == Contains(meld.cards, card)

can_layoff_AnySuit(meld, card) ==
    IF meld.kind = SetKind
    THEN meld.cards # <<>> /\ RankOf(meld.cards[1]) = RankOf(card)
    ELSE IF meld.cards = <<>> THEN FALSE
         ELSE LET sorted == Sort(meld.cards)
                  min_rank == RankOf(sorted[1])
                  max_rank == RankOf(Last(sorted))
                  card_rank == RankOf(card)
              IN  card_rank = min_rank - 1 \/ card_rank = max_rank + 1

can_layoff(meld, card) ==
    IF meld.kind = SetKind
    THEN meld.cards # <<>> /\ RankOf(meld.cards[1]) = RankOf(card)
    ELSE IF meld.cards = <<>> THEN FALSE
         ELSE IF SuitOf(meld.cards[1]) # SuitOf(card) THEN FALSE
         ELSE LET sorted == Sort(meld.cards)
                  min_rank == RankOf(sorted[1])
                  max_rank == RankOf(Last(sorted))
                  card_rank == RankOf(card)
              IN  card_rank = min_rank - 1 \/ card_rank = max_rank + 1

MeldAnalysisNew(melds, deadwood) ==
    [melds |-> melds, deadwood |-> deadwood, deadwood_value |-> SumValues(deadwood)]

\* itertools combinations(size): index combinations in lexicographic order
RECURSIVE Combinations(_, _)
Combinations(group, size) ==
    IF size = 0 THEN << <<>> >>
    ELSE IF Len(group) < size THEN <<>>
    ELSE LET withHead == Combinations(Tail(group), size - 1)
         IN  [i \in 1..Len(withHead) |-> <<Head(group)>> \o withHead[i]]
             \o Combinations(Tail(group), size)

\* the groups of into_group_map_by, here enumerated by ascending key; a group
\* keeps the cards in the order of the input
GroupByRank(cards, r) == Filter(cards, LAMBDA c : RankOf(c) = r)

GroupBySuit(cards, s) == Filter(cards, LAMBDA c : SuitOf(c) = s)

SetsOfGroup(group) ==
    Flatten([k \in 1..(IF Len(group) >= 3 THEN Len(group) - 2 ELSE 0) |->
        LET combos == Combinations(group, k + 2)
        IN  [i \in 1..Len(combos) |-> MeldNew(SetKind, combos[i])]])

generate_sets(cards) ==
    Flatten([r \in 1..13 |-> SetsOfGroup(GroupByRank(cards, r))])

ranks_are_consecutive_AnyAscending(prev, next) == prev < next

ranks_are_consecutive(prev, next) == prev + 1 = next

\* collect::<BTreeSet<_>>().into_iter().collect(): ascending, duplicates dropped
RECURSIVE Unique(_)
Unique(sorted) ==
    IF Len(sorted) <= 1 THEN sorted
    ELSE IF sorted[1] = sorted[2] THEN Unique(Tail(sorted))
    ELSE <<sorted[1]>> \o Unique(Tail(sorted))

\* the inner while loop: first index (from 0) after start that breaks the run
RECURSIVE RunEnd(_, _)
RunEnd(unique_cards, end) ==
    IF end < Len(unique_cards)
       /\ ranks_are_consecutive(RankOf(unique_cards[end]), RankOf(unique_cards[end + 1]))
    THEN RunEnd(unique_cards, end + 1)
    ELSE end

Windows_OnlyThree(unique_cards, start, end) ==
    [w \in 1..(IF end - start >= 3 THEN end - start - 2 ELSE 0) |->
        MeldNew(RunKind, SubSeq(unique_cards, start + w, start + w + 2))]

\* the two for loops over len and window_start of one maximal run [start, end)
Windows(unique_cards, start, end) ==
    Flatten([k \in 1..(IF end - start >= 3 THEN end - start - 2 ELSE 0) |->
        LET len == k + 2
        IN  [w \in 1..(end - len - start + 1) |->
                MeldNew(RunKind, SubSeq(unique_cards, start + w, start + w + len - 1))]])

\* the outer while loop, start counted from 0
RECURSIVE RunsFrom(_, _)
RunsFrom(unique_cards, start) ==
    IF start >= Len(unique_cards) THEN <<>>
    ELSE LET end == RunEnd(unique_cards, start + 1)
         IN  Windows(unique_cards, start, end) \o RunsFrom(unique_cards, end)

generate_runs(cards) ==
    Flatten([s \in 1..4 |->
        RunsFrom(Unique(Sort(GroupBySuit(cards, SuitALL[s]))), 0)])

RECURSIVE DedupFrom(_, _)
DedupFrom(melds, seen) ==
    IF melds = <<>> THEN <<>>
    ELSE IF Head(melds).cards \in seen THEN DedupFrom(Tail(melds), seen)
    ELSE <<Head(melds)>> \o DedupFrom(Tail(melds), seen \cup {Head(melds).cards})

dedup_melds(melds) == DedupFrom(melds, {})

generate_candidates(cards) == dedup_melds(generate_sets(cards) \o generate_runs(cards))

Better_FewerMelds(analysis, best) ==
    \/ analysis.deadwood_value < best.deadwood_value
    \/ /\ analysis.deadwood_value = best.deadwood_value
       /\ Len(analysis.melds) < Len(best.melds)

\* the acceptance test of search_candidates at a leaf
Better(analysis, best) ==
    \/ analysis.deadwood_value < best.deadwood_value
    \/ /\ analysis.deadwood_value = best.deadwood_value
       /\ Len(analysis.melds) > Len(best.melds)

MeldFree_Always(meld, remaining, current_melds, deadwood) == TRUE

\* the guard of the for loop of search_candidates
MeldFree(meld, remaining, current_melds, deadwood) ==
    /\ \A i \in 1..Len(meld.cards) : Contains(remaining, meld.cards[i])
    /\ \A i \in 1..Len(meld.cards) : ~Contains(deadwood, meld.cards[i])
    /\ \A i \in 1..Len(meld.cards) :
          \A j \in 1..Len(current_melds) : ~MeldContains(current_melds[j], meld.cards[i])

RECURSIVE search_candidates(_, _, _, _, _)
RECURSIVE SearchMelds(_, _, _, _, _, _)
\* returns the value of *best after the call
search_candidates(remaining, candidates, current_melds, deadwood, best) ==
    IF remaining = <<>>
    THEN LET analysis == MeldAnalysisNew(current_melds, deadwood)
         IN  IF Better(analysis, best) THEN analysis ELSE best
    ELSE LET card == Head(remaining)
             rest == Tail(remaining)
             afterDeadwood ==
                 search_candidates(rest, candidates, current_melds, Append(deadwood, card), best)
         IN  \* the test only orders the evaluation: the deadwood branch runs first
             IF afterDeadwood.deadwood_value >= 0
             THEN SearchMelds(Filter(candidates, LAMBDA m : MeldContains(m, card)),
                              remaining, candidates, current_melds, deadwood, afterDeadwood)
             ELSE best

\* the for loop of search_candidates over the candidates that contain card
SearchMelds(withCard, remaining, candidates, current_melds, deadwood, best) ==
    IF withCard = <<>> THEN best
    ELSE LET meld == Head(withCard)
             reduced == Sort(Filter(remaining, LAMBDA c : ~Contains(meld.cards, c)))
             next == IF MeldFree(meld, remaining, current_melds, deadwood)
                     THEN search_candidates(reduced, candidates,
                                            Append(current_melds, meld), deadwood, best)
                     ELSE best
         IN  \* the test only orders the evaluation: this meld before the next one
             IF next.deadwood_value >= 0
             THEN SearchMelds(Tail(withCard), remaining, candidates, current_melds, deadwood, next)
             ELSE best

analyze_hand(cards) ==
    LET sorted == Sort(cards)
        candidates == generate_candidates(sorted)
        best == MeldAnalysisNew(<<>>, sorted)
    IN  search_candidates(sorted, candidates, <<>>, <<>>, best)

\* The groups of into_group_map_by come out of a HashMap in an order the
\* program does not fix. rank_order and suit_order are the orders in which
\* the rank groups and the suit groups are enumerated; generate_sets and
\* generate_runs above are the enumeration by ascending key.
generate_sets_in(cards, rank_order) ==
    Flatten([k \in 1..Len(rank_order) |-> SetsOfGroup(GroupByRank(cards, rank_order[k]))])

generate_runs_in(cards, suit_order) ==
    Flatten([k \in 1..Len(suit_order) |->
        RunsFrom(Unique(Sort(GroupBySuit(cards, suit_order[k]))), 0)])

generate_candidates_in(cards, rank_order, suit_order) ==
    dedup_melds(generate_sets_in(cards, rank_order) \o generate_runs_in(cards, suit_order))

analyze_hand_in_Unsorted(cards, rank_order, suit_order) ==
    LET sorted == cards
        candidates == generate_candidates_in(sorted, rank_order, suit_order)
        best == MeldAnalysisNew(<<>>, sorted)
    IN  search_candidates(sorted, candidates, <<>>, <<>>, best)

analyze_hand_in(cards, rank_order, suit_order) ==
    LET sorted == Sort(cards)
        candidates == generate_candidates_in(sorted, rank_order, suit_order)
        best == MeldAnalysisNew(<<>>, sorted)
    IN  search_candidates(sorted, candidates, <<>>, <<>>, best)

\* the scan of expanded_melds for one card: index of the first meld that takes
\* it, 0 when none does
FirstLayoff(melds, card) ==
    IF \E j \in 1..Len(melds) : can_layoff(melds[j], card)
    THEN CHOOSE j \in 1..Len(melds) :
            /\ can_layoff(melds[j], card)
            /\ \A k \in 1..(j - 1) : ~can_layoff(melds[k], card)
    ELSE 0

RECURSIVE LayoffLoop_NoGrowth(_, _, _, _)
LayoffLoop_NoGrowth(deadwood, expanded_melds, remaining, laid_off) ==
    IF deadwood = <<>> THEN <<remaining, laid_off>>
    ELSE LET card == Head(deadwood)
             j == FirstLayoff(expanded_melds, card)
         IN  IF j # 0
             THEN LayoffLoop_NoGrowth(Tail(deadwood), expanded_melds,
                      remaining, Append(laid_off, card))
             ELSE LayoffLoop_NoGrowth(Tail(deadwood), expanded_melds,
                      Append(remaining, card), laid_off)

RECURSIVE LayoffLoop(_, _, _, _)
LayoffLoop(deadwood, expanded_melds, remaining, laid_off) ==
    IF deadwood = <<>> THEN <<remaining, laid_off>>
    ELSE LET card == Head(deadwood)
             j == FirstLayoff(expanded_melds, card)
         IN  IF j # 0
             THEN LayoffLoop(Tail(deadwood),
                      [expanded_melds EXCEPT ![j].cards = Sort(Append(@, card))],
                      remaining, Append(laid_off, card))
             ELSE LayoffLoop(Tail(deadwood), expanded_melds,
                      Append(remaining, card), laid_off)

layoff_cards(deadwood, knocker_melds) == LayoffLoop(deadwood, knocker_melds, <<>>, <<>>)

\* ------------------------------------------------------------------------
\* game.rs
\* ------------------------------------------------------------------------
BIG_GIN_BONUS == 31

Human == "Human"

Bot == "Bot"

PlayerId == {Human, Bot}

Other(id) == IF id = Human THEN Bot ELSE Human

Stock == "Stock"

Discard == "Discard"

DrawSource == {Stock, Discard}

AwaitDraw == "AwaitDraw"

AwaitDiscard == "AwaitDiscard"

RoundOver == "RoundOver"

\* Option<T>: None is the empty sequence, Some(x) the sequence <<x>>
None == <<>>

Some(x) == <<x>>

\* Option<PlayerId> of winner and last_round_winner
NoPlayer == "None"

\* ActionOutcome and the messages of the errors
Continue == "Continue"

RoundEnded == "RoundEnded"

Done == "Ok"

ErrNotDraw == "not expecting a draw"

ErrNotTurn == "not this player's turn"

ErrStockEmpty == "stock pile is empty"

ErrDiscardEmpty == "discard pile empty"

ErrNotDiscard == "not expecting a discard"

ErrIndex == "invalid card index"

ErrDeadwood == "deadwood too high to knock"

ErrInProgress == "round still in progress"

ScoreboardDefault ==
    [human |-> 0, bot |-> 0, rounds_played |-> 0,
     human_hands_won |-> 0, bot_hands_won |-> 0, draws |-> 0]

PlayerNew == [hand |-> <<>>]

player(g, id) == IF id = Human THEN g.human ELSE g.bot

WithHand_BothHands(g, id, hand) == [g EXCEPT !.human.hand = hand, !.bot.hand = hand]

\* player_mut(id).hand = hand
WithHand(g, id, hand) ==
    IF id = Human THEN [g EXCEPT !.human.hand = hand] ELSE [g EXCEPT !.bot.hand = hand]

build_deck == [i \in 1..52 |-> Card(RankALL[((i - 1) % 13) + 1], SuitALL[((i - 1) \div 13) + 1])]

\* the loop of start_round, n rounds of it left: one card to the human, then
\* one to the bot, each popped from the end of the stock
RECURSIVE DealLoop(_, _)
DealLoop(g, n) ==
    IF n = 0 THEN [g |-> g, r |-> Done]
    ELSE IF g.stock = <<>> THEN [g |-> g, r |-> ErrStockEmpty]
    ELSE LET g1 == [g EXCEPT !.human.hand = Append(@, Last(g.stock)), !.stock = Front(@)]
         IN  IF g1.stock = <<>> THEN [g |-> g1, r |-> ErrStockEmpty]
             ELSE DealLoop([g1 EXCEPT !.bot.hand = Append(@, Last(g1.stock)),
                                      !.stock = Front(@)], n - 1)

start_round_KeepsPending(g, shuffled) ==
    LET g0 == [g EXCEPT !.human.hand = <<>>, !.bot.hand = <<>>,
                        !.stock = shuffled, !.discard = <<>>]
        dealt == DealLoop(g0, HAND_SIZE)
        g1 == [dealt.g EXCEPT !.human.hand = Sort(@), !.bot.hand = Sort(@)]
    IN  [g |-> [g1 EXCEPT !.discard = Append(@, Last(g1.stock)),
                          !.stock = Front(@),
                          !.current_player = Other(g1.dealer),
                          !.phase = AwaitDraw],
         r |-> Done]

start_round_DealerStarts(g, shuffled) ==
    LET g0 == [g EXCEPT !.human.hand = <<>>, !.bot.hand = <<>>,
                        !.stock = shuffled, !.discard = <<>>]
        dealt == DealLoop(g0, HAND_SIZE)
        g1 == [dealt.g EXCEPT !.human.hand = Sort(@), !.bot.hand = Sort(@)]
    IN  [g |-> [g1 EXCEPT !.discard = Append(@, Last(g1.stock)),
                          !.stock = Front(@),
                          !.current_player = g1.dealer,
                          !.phase = AwaitDraw,
                          !.pending_round = None],
         r |-> Done]

\* shuffled is the stock after build_deck and shuffle
start_round_NoStarter(g, shuffled) ==
    LET g0 == [g EXCEPT !.human.hand = <<>>, !.bot.hand = <<>>,
                        !.stock = shuffled, !.discard = <<>>]
        dealt == DealLoop(g0, HAND_SIZE)
        g1 == [dealt.g EXCEPT !.human.hand = Sort(@), !.bot.hand = Sort(@)]
    IN  IF dealt.r # Done THEN dealt
        ELSE IF g1.stock = <<>> THEN [g |-> g1, r |-> ErrStockEmpty]
        ELSE [g |-> [g1 EXCEPT !.current_player = Other(g1.dealer),
                               !.phase = AwaitDraw,
                               !.pending_round = None],
              r |-> Done]

start_round(g, shuffled) ==
    LET g0 == [g EXCEPT !.human.hand = <<>>, !.bot.hand = <<>>,
                        !.stock = shuffled, !.discard = <<>>]
        dealt == DealLoop(g0, HAND_SIZE)
        g1 == [dealt.g EXCEPT !.human.hand = Sort(@), !.bot.hand = Sort(@)]
    IN  IF dealt.r # Done THEN dealt
        ELSE IF g1.stock = <<>> THEN [g |-> g1, r |-> ErrStockEmpty]
        ELSE [g |-> [g1 EXCEPT !.discard = Append(@, Last(g1.stock)),
                               !.stock = Front(@),
                               !.current_player = Other(g1.dealer),
                               !.phase = AwaitDraw,
                               !.pending_round = None],
              r |-> Done]

GameNew(shuffled) ==
    start_round([human |-> PlayerNew, bot |-> PlayerNew, stock |-> <<>>, discard |-> <<>>,
                 dealer |-> Bot, current_player |-> Human, phase |-> AwaitDraw,
                 scoreboard |-> ScoreboardDefault, pending_round |-> None,
                 last_round_winner |-> NoPlayer], shuffled)

finish_round_BotPointsToHuman(g, result) ==
    LET g1 == CASE result.winner = Human ->
                     [g EXCEPT !.scoreboard.human = @ + result.points_awarded,
                               !.scoreboard.human_hands_won = @ + 1,
                               !.dealer = Bot,
                               !.last_round_winner = Human]
                [] result.winner = Bot ->
                     [g EXCEPT !.scoreboard.human = @ + result.points_awarded,
                               !.scoreboard.bot_hands_won = @ + 1,
                               !.dealer = Human,
                               !.last_round_winner = Bot]
                [] OTHER ->
                     [g EXCEPT !.scoreboard.draws = @ + 1,
                               !.dealer = Other(g.dealer),
                               !.last_round_winner = NoPlayer]
    IN  [g1 EXCEPT !.scoreboard.rounds_played = @ + 1,
                   !.phase = RoundOver,
                   !.pending_round = Some(result)]

finish_round_WinnerDeals(g, result) ==
    LET g1 == CASE result.winner = Human ->
                     [g EXCEPT !.scoreboard.human = @ + result.points_awarded,
                               !.scoreboard.human_hands_won = @ + 1,
                               !.dealer = Human,
                               !.last_round_winner = Human]
                [] result.winner = Bot ->
                     [g EXCEPT !.scoreboard.bot = @ + result.points_awarded,
                               !.scoreboard.bot_hands_won = @ + 1,
                               !.dealer = Bot,
                               !.last_round_winner = Bot]
                [] OTHER ->
                     [g EXCEPT !.scoreboard.draws = @ + 1,
                               !.dealer = Other(g.dealer),
                               !.last_round_winner = NoPlayer]
    IN  [g1 EXCEPT !.scoreboard.rounds_played = @ + 1,
                   !.phase = RoundOver,
                   !.pending_round = Some(result)]

finish_round_DrawNotCounted(g, result) ==
    LET g1 == CASE result.winner = Human ->
                     [g EXCEPT !.scoreboard.human = @ + result.points_awarded,
                               !.scoreboard.human_hands_won = @ + 1,
                               !.dealer = Bot,
                               !.last_round_winner = Human]
                [] result.winner = Bot ->
                     [g EXCEPT !.scoreboard.bot = @ + result.points_awarded,
                               !.scoreboard.bot_hands_won = @ + 1,
                               !.dealer = Human,
                               !.last_round_winner = Bot]
                [] OTHER ->
                     [g EXCEPT !.dealer = Other(g.dealer),
                               !.last_round_winner = NoPlayer]
    IN  [g1 EXCEPT !.scoreboard.rounds_played = @ + 1,
                   !.phase = RoundOver,
                   !.pending_round = Some(result)]

finish_round(g, result) ==
    LET g1 == CASE result.winner = Human ->
                     [g EXCEPT !.scoreboard.human = @ + result.points_awarded,
                               !.scoreboard.human_hands_won = @ + 1,
                               !.dealer = Bot,
                               !.last_round_winner = Human]
                [] result.winner = Bot ->
                     [g EXCEPT !.scoreboard.bot = @ + result.points_awarded,
                               !.scoreboard.bot_hands_won = @ + 1,
                               !.dealer = Human,
                               !.last_round_winner = Bot]
                [] OTHER ->
                     [g EXCEPT !.scoreboard.draws = @ + 1,
                               !.dealer = Other(g.dealer),
                               !.last_round_winner = NoPlayer]
    IN  [g1 EXCEPT !.scoreboard.rounds_played = @ + 1,
                   !.phase = RoundOver,
                   !.pending_round = Some(result)]

Abs(n) == IF n < 0 THEN 0 - n ELSE n

TooHighToKnock_AtTen(deadwood_value) == deadwood_value >= 10

\* the test that refuses a knock
TooHighToKnock(deadwood_value) == deadwood_value > 10

IsUndercut_Strict(opponent_deadwood_value, knocker_deadwood, gin) ==
    opponent_deadwood_value < knocker_deadwood /\ ~gin

IsUndercut_IgnoresGin(opponent_deadwood_value, knocker_deadwood, gin) ==
    opponent_deadwood_value <= knocker_deadwood

\* the test for an undercut
IsUndercut(opponent_deadwood_value, knocker_deadwood, gin) ==
    opponent_deadwood_value <= knocker_deadwood /\ ~gin

KnockerPoints_AlwaysBonus(opponent_deadwood_value, knocker_deadwood, gin) ==
    (opponent_deadwood_value - knocker_deadwood) + 25

KnockerPoints_Reversed(opponent_deadwood_value, knocker_deadwood, gin) ==
    IF gin THEN (knocker_deadwood - opponent_deadwood_value) + 25
    ELSE knocker_deadwood - opponent_deadwood_value

\* points when the knocker wins
KnockerPoints(opponent_deadwood_value, knocker_deadwood, gin) ==
    IF gin THEN (opponent_deadwood_value - knocker_deadwood) + 25
    ELSE opponent_deadwood_value - knocker_deadwood

\* points of an undercut
UndercutPoints(opponent_deadwood_value, knocker_deadwood) ==
    (knocker_deadwood - opponent_deadwood_value) + 25

\* winner, points and undercut flag of a knock, from the knocker's deadwood
\* value and the opponent's deadwood value after layoff
KnockOutcome(knocker, knocker_deadwood, opponent_deadwood_value, gin) ==
    LET undercut == IsUndercut(opponent_deadwood_value, knocker_deadwood, gin)
        winner == IF undercut THEN Other(knocker) ELSE knocker
        points1 == IF undercut
                   THEN UndercutPoints(opponent_deadwood_value, knocker_deadwood)
                   ELSE KnockerPoints(opponent_deadwood_value, knocker_deadwood, gin)
        points == IF winner = Bot /\ points1 < 0 THEN 0 ELSE points1
    IN  [winner |-> winner, points |-> points, undercut |-> undercut]

OpponentLayoff_None(gin, deadwood, knocker_melds) == <<deadwood, <<>>>>

\* the opponent's deadwood cards that count and the cards laid off
OpponentLayoff(gin, deadwood, knocker_melds) ==
    IF gin THEN <<deadwood, <<>>>> ELSE layoff_cards(deadwood, knocker_melds)

resolve_knock(g, knocker) ==
    LET opponent == Other(knocker)
        knocker_hand == player(g, knocker).hand
        opponent_hand == player(g, opponent).hand
        knocker_analysis == analyze_hand(knocker_hand)
        gin == knocker_analysis.deadwood_value = 0
        opponent_analysis == analyze_hand(opponent_hand)
        laid == OpponentLayoff(gin, opponent_analysis.deadwood, knocker_analysis.melds)
        opponent_deadwood_value == SumValues(laid[1])
        outcome == KnockOutcome(knocker, knocker_analysis.deadwood_value,
                                opponent_deadwood_value, gin)
    IN  IF TooHighToKnock(knocker_analysis.deadwood_value)
        THEN [ok |-> FALSE, err |-> ErrDeadwood]
        ELSE [ok |-> TRUE,
              result |-> [winner |-> outcome.winner,
                          points_awarded |-> Abs(outcome.points),
                          reason |-> [kind |-> "Knock",
                                      knocker |-> knocker,
                                      knocker_deadwood |-> knocker_analysis.deadwood_value,
                                      opponent_deadwood |-> opponent_deadwood_value,
                                      laid_off |-> laid[2],
                                      gin |-> gin,
                                      undercut |-> outcome.undercut],
                          human_hand |-> g.human.hand,
                          bot_hand |-> g.bot.hand]]

\* the early returns of draw: the error, or Done when the call goes on
DrawRejection(g, id) ==
    IF g.phase # AwaitDraw THEN ErrNotDraw
    ELSE IF g.current_player # id THEN ErrNotTurn
    ELSE Done

StockDepletes_Never(g, source) == FALSE

StockDepletes_AtThree(g, source) == source = Stock /\ Len(g.stock) <= 3

StockDepletes_BelowReserve(g, source) == source = Stock /\ Len(g.stock) < 2

StockDepletes_WhenEmpty(g, source) == source = Stock /\ Len(g.stock) = 0

\* the test that ends the round for a stock down to its reserve
StockDepletes(g, source) == source = Stock /\ Len(g.stock) <= 2

IsBigGin_TenCards(hand, deadwood_value) == Len(hand) = HAND_SIZE /\ deadwood_value = 0

\* the test for Big Gin on the hand after the draw
IsBigGin(hand, deadwood_value) == Len(hand) = HAND_SIZE + 1 /\ deadwood_value = 0

draw(g, id, source) ==
    IF DrawRejection(g, id) # Done THEN [g |-> g, r |-> DrawRejection(g, id)]
    ELSE IF StockDepletes(g, source)
    THEN [g |-> finish_round(g, [winner |-> NoPlayer,
                                 points_awarded |-> 0,
                                 reason |-> [kind |-> "StockDepleted"],
                                 human_hand |-> g.human.hand,
                                 bot_hand |-> g.bot.hand]),
          r |-> RoundEnded]
    ELSE IF source = Stock /\ g.stock = <<>> THEN [g |-> g, r |-> ErrStockEmpty]
    ELSE IF source = Discard /\ g.discard = <<>> THEN [g |-> g, r |-> ErrDiscardEmpty]
    ELSE LET card == IF source = Stock THEN Last(g.stock) ELSE Last(g.discard)
             popped == IF source = Stock THEN [g EXCEPT !.stock = Front(@)]
                       ELSE [g EXCEPT !.discard = Front(@)]
             g1 == WithHand(popped, id, Sort(Append(player(popped, id).hand, card)))
             analysis == analyze_hand(player(g1, id).hand)
             opponent == Other(id)
             opponent_analysis == analyze_hand(player(g1, opponent).hand)
             opponent_deadwood_value == SumValues(opponent_analysis.deadwood)
             points == opponent_deadwood_value + BIG_GIN_BONUS
         IN  IF IsBigGin(player(g1, id).hand, analysis.deadwood_value)
             THEN [g |-> finish_round(g1, [winner |-> id,
                                           points_awarded |-> points,
                                           reason |-> [kind |-> "BigGin",
                                                       player |-> id,
                                                       opponent_deadwood |-> opponent_deadwood_value,
                                                       bonus |-> BIG_GIN_BONUS],
                                           human_hand |-> g1.human.hand,
                                           bot_hand |-> g1.bot.hand]),
                   r |-> RoundEnded]
             ELSE [g |-> [g1 EXCEPT !.phase = AwaitDiscard], r |-> Continue]

advance_turn_KeepsPhase(g) == [g EXCEPT !.current_player = Other(g.current_player)]

advance_turn_KeepsPlayer(g) == [g EXCEPT !.phase = AwaitDraw]

advance_turn(g) == [g EXCEPT !.current_player = Other(g.current_player), !.phase = AwaitDraw]

DiscardRejection_NoTurnCheck(g, id, card_index) ==
    IF g.phase # AwaitDiscard THEN ErrNotDiscard
    ELSE IF card_index >= Len(player(g, id).hand) THEN ErrIndex
    ELSE Done

\* the early returns of discard: the error, or Done when the call goes on
DiscardRejection(g, id, card_index) ==
    IF g.phase # AwaitDiscard THEN ErrNotDiscard
    ELSE IF g.current_player # id THEN ErrNotTurn
    ELSE IF card_index >= Len(player(g, id).hand) THEN ErrIndex
    ELSE Done

discard(g, id, card_index, declare_knock) ==
    IF DiscardRejection(g, id, card_index) # Done
    THEN [g |-> g, r |-> DiscardRejection(g, id, card_index)]
    ELSE LET card == player(g, id).hand[card_index + 1]
             removed == WithHand(g, id, Sort(RemoveAt(player(g, id).hand, card_index)))
             g1 == [removed EXCEPT !.discard = Append(@, card)]
             knock == resolve_knock(g1, id)
         IN  IF declare_knock
             THEN IF knock.ok
                  THEN [g |-> finish_round(g1, knock.result), r |-> RoundEnded]
                  ELSE [g |-> g1, r |-> knock.err]
             ELSE [g |-> advance_turn(g1), r |-> Continue]

start_next_round_NoCheck(g, shuffled) == start_round(g, shuffled)

start_next_round(g, shuffled) ==
    IF g.phase # RoundOver THEN [g |-> g, r |-> ErrInProgress]
    ELSE start_round(g, shuffled)

restart_with_starting_player(g, starter, shuffled) ==
    start_round([g EXCEPT !.dealer = Other(starter)], shuffled)

OpeningTie_ByRank(human_card, bot_card) == RankOf(human_card) = RankOf(bot_card)

\* the test of opening_draw that sends the pair back: human_val == bot_val
OpeningTie(human_card, bot_card) == CardValue(human_card) = CardValue(bot_card)

\* the loop of opening_draw on the deck it holds; rest are the decks that the
\* later shuffles give. None: the shuffles given are used up and the loop is
\* still drawing.
RECURSIVE OpeningLoop(_, _)
OpeningLoop(deck, rest) ==
    IF Len(deck) < 2
    THEN IF rest = <<>> THEN None ELSE OpeningLoop(Head(rest), Tail(rest))
    ELSE LET human_card == Last(deck)
             bot_card == Last(Front(deck))
             human_val == CardValue(human_card)
             bot_val == CardValue(bot_card)
         IN  IF OpeningTie(human_card, bot_card)
             THEN OpeningLoop(Front(Front(deck)), rest)
             ELSE Some([human_card |-> human_card,
                        bot_card |-> bot_card,
                        starter |-> IF human_val > bot_val THEN Human ELSE Bot])

\* opening_draw(&self): shuffles are the decks that build_deck and shuffle
\* give, the first before the loop; g is borrowed and comes back as it was
opening_draw(g, shuffles) ==
    [g |-> g,
     r |-> IF shuffles = <<>> THEN None ELSE OpeningLoop(Head(shuffles), Tail(shuffles))]

\* ------------------------------------------------------------------------
\* bot.rs
\* ------------------------------------------------------------------------
Easy == "Easy"

Challenging == "Challenging"

BotDifficulty == {Easy, Challenging}

knock_threshold_AlwaysTen(difficulty) == 10

knock_threshold(difficulty) == IF difficulty = Easy THEN 6 ELSE 10

\* u32::MAX, the first best_deadwood of choose_discard. It is only compared
\* with deadwood values, which stay below 111; the model holds the largest
\* integer of TLC in its place.
U32_MAX == 2147483647

choose_draw_source_OnlyIfLower(g) ==
    IF g.discard = <<>> THEN Stock
    ELSE LET top_discard == Last(g.discard)
             current_score == analyze_hand(g.bot.hand).deadwood_value
             score_with_discard == analyze_hand(Append(g.bot.hand, top_discard)).deadwood_value
         IN  IF score_with_discard < current_score THEN Discard ELSE Stock

choose_draw_source(g) ==
    IF g.discard = <<>> THEN Stock
    ELSE LET top_discard == Last(g.discard)
             current_score == analyze_hand(g.bot.hand).deadwood_value
             score_with_discard == analyze_hand(Append(g.bot.hand, top_discard)).deadwood_value
         IN  IF score_with_discard <= current_score THEN Discard ELSE Stock

ImprovesDiscard_NoTieBreak(deadwood_with_discard, removed_value, best_deadwood, best_card_value) ==
    deadwood_with_discard < best_deadwood

ImprovesDiscard_FirstCard(deadwood_with_discard, removed_value, best_deadwood, best_card_value) ==
    best_deadwood = U32_MAX

\* the test of the for loop of choose_discard that takes idx as the best
ImprovesDiscard(deadwood_with_discard, removed_value, best_deadwood, best_card_value) ==
    \/ deadwood_with_discard < best_deadwood
    \/ /\ deadwood_with_discard = best_deadwood
       /\ removed_value > best_card_value

\* the for loop of choose_discard from idx on (idx counted from 0); best
\* holds best_index, best_deadwood and best_card_value. The one-element sets
\* hold the value of a let of the code, computed once.
RECURSIVE ChooseBest(_, _, _)
ChooseBest(hand, idx, best) ==
    IF idx >= Len(hand) THEN best
    ELSE CHOOSE result \in
            {ChooseBest(hand, idx + 1,
                        IF ImprovesDiscard(deadwood_with_discard, CardValue(hand[idx + 1]),
                                           best.deadwood, best.card_value)
                        THEN [index |-> idx, deadwood |-> deadwood_with_discard,
                              card_value |-> CardValue(hand[idx + 1])]
                        ELSE best) :
                deadwood_with_discard \in {analyze_hand(RemoveAt(hand, idx)).deadwood_value}} :
            TRUE

choose_discard_RandomKeepsKnock(g, difficulty, random) ==
    CHOOSE choice \in
        {<<IF difficulty = Easy /\ random # None /\ g.bot.hand # <<>>
           THEN random[1] % Len(g.bot.hand)
           ELSE best.index,
           /\ best.deadwood <= knock_threshold(difficulty)
           /\ analyze_hand(RemoveAt(g.bot.hand, best.index)).deadwood_value <= 10>> :
            best \in {ChooseBest(g.bot.hand, 0,
                                 [index |-> 0, deadwood |-> U32_MAX, card_value |-> 0])}} :
        TRUE

\* random is what the random source gives: None when rand::random() is not
\* below 0.2, Some(n) when it is and n selects the index to discard
choose_discard(g, difficulty, random) ==
    CHOOSE choice \in
        {IF difficulty = Easy /\ random # None /\ g.bot.hand # <<>>
         THEN <<random[1] % Len(g.bot.hand), FALSE>>
         ELSE <<best.index,
                /\ best.deadwood <= knock_threshold(difficulty)
                /\ analyze_hand(RemoveAt(g.bot.hand, best.index)).deadwood_value <= 10>> :
            best \in {ChooseBest(g.bot.hand, 0,
                                 [index |-> 0, deadwood |-> U32_MAX, card_value |-> 0])}} :
        TRUE

\* the draw arm of take_turn: the source chosen and what Game::draw returns
BotDraw(g) ==
    {[source |-> source, out |-> draw(g, Bot, source)] : source \in {choose_draw_source(g)}}

\* the discard arm of take_turn: the choice and what Game::discard returns
BotDiscard(g, difficulty, random) ==
    {[choice |-> choice, out |-> discard(g, Bot, choice[1], choice[2])] :
        choice \in {choose_discard(g, difficulty, random)}}

take_turn_loop_ReturnsAfterDraw(g, difficulty, random, draws, discards) ==
    IF g.phase = AwaitDraw /\ g.current_player = Bot
    THEN CHOOSE result \in
            {[g |-> d.out.g, r |-> d.out.r,
              draws |-> Append(draws, d.source), discards |-> discards] :
                d \in BotDraw(g)} : TRUE
    ELSE IF g.phase = AwaitDiscard /\ g.current_player = Bot
    THEN CHOOSE result \in
            {[g |-> d.out.g, r |-> d.out.r,
              draws |-> draws, discards |-> Append(discards, d.choice)] :
                d \in BotDiscard(g, difficulty, random)} : TRUE
    ELSE [g |-> g, r |-> Continue, draws |-> draws, discards |-> discards]

\* the loop of take_turn; draws and discards collect the calls it has made
\* on the Game: the sources drawn from and the (index, knock) discarded
RECURSIVE take_turn_loop(_, _, _, _, _)
take_turn_loop(g, difficulty, random, draws, discards) ==
    IF g.phase = AwaitDraw /\ g.current_player = Bot
    THEN CHOOSE result \in
            {IF d.out.r = Continue
             THEN take_turn_loop(d.out.g, difficulty, random,
                                 Append(draws, d.source), discards)
             ELSE [g |-> d.out.g, r |-> d.out.r,
                   draws |-> Append(draws, d.source), discards |-> discards] :
                d \in BotDraw(g)} : TRUE
    ELSE IF g.phase = AwaitDiscard /\ g.current_player = Bot
    THEN CHOOSE result \in
            {[g |-> d.out.g, r |-> d.out.r,
              draws |-> draws, discards |-> Append(discards, d.choice)] :
                d \in BotDiscard(g, difficulty, random)} : TRUE
    ELSE [g |-> g, r |-> Continue, draws |-> draws, discards |-> discards]

take_turn(g, difficulty, random) == take_turn_loop(g, difficulty, random, <<>>, <<>>)

\* ------------------------------------------------------------------------
\* The shuffles the model deals from.  A shuffle is a permutation of
\* build_deck; the stock is popped from its end, so the last 20 cards are
\* dealt alternately (human first), the card before them is the starter
\* of the discard pile and the card before that the first stock draw.
\* ------------------------------------------------------------------------
NumDecks == 4

MaxSteps == 4

MaxStraightSteps == 60

DiscardIndices == {0, 5, HAND_SIZE, HAND_SIZE + 1}

\* the shuffle that deals humanHand and botHand, then starter, and leaves top
\* on the stock above the other cards in ascending order
MakeDeck(humanHand, botHand, starter, top) ==
    LET used == Range(humanHand) \cup Range(botHand) \cup {starter, top}
        rest == Filter(Sort(build_deck), LAMBDA c : c \notin used)
        dealt == [k \in 1..(2 * HAND_SIZE) |->
                     IF k % 2 = 1 THEN botHand[HAND_SIZE + 1 - ((k + 1) \div 2)]
                     ELSE humanHand[HAND_SIZE + 1 - (k \div 2)]]
    IN  rest \o <<top, starter>> \o dealt

\* both hands fully melded; the starter completes the human's eleven cards
DeckGin ==
    MakeDeck(<<Card(1, Clubs), Card(2, Clubs), Card(3, Clubs), Card(4, Clubs),
               Card(5, Diamonds), Card(6, Diamonds), Card(7, Diamonds),
               Card(9, Hearts), Card(10, Hearts), Card(11, Hearts)>>,
             <<Card(13, Clubs), Card(13, Diamonds), Card(13, Hearts),
               Card(12, Clubs), Card(12, Diamonds), Card(12, Hearts), Card(12, Spades),
               Card(2, Spades), Card(3, Spades), Card(4, Spades)>>,
             Card(8, Diamonds), Card(13, Spades))

\* human: three melds and the 8 of spades; bot: deadwood 4C 5S 7S of which
\* 4C and 7S lay off on the human's melds
DeckUndercut ==
    MakeDeck(<<Card(1, Clubs), Card(2, Clubs), Card(3, Clubs),
               Card(4, Diamonds), Card(5, Diamonds), Card(6, Diamonds),
               Card(7, Clubs), Card(7, Diamonds), Card(7, Hearts), Card(8, Spades)>>,
             <<Card(4, Clubs), Card(5, Spades), Card(7, Spades),
               Card(9, Clubs), Card(9, Diamonds), Card(9, Hearts),
               Card(10, Hearts), Card(11, Hearts), Card(12, Hearts), Card(13, Hearts)>>,
             Card(5, Hearts), Card(13, Spades))

\* human: two runs and the ace of spades; bot: no meld and nothing to lay off
DeckKnock ==
    MakeDeck(<<Card(1, Spades), Card(3, Clubs), Card(4, Clubs), Card(5, Clubs),
               Card(6, Clubs), Card(9, Diamonds), Card(10, Diamonds),
               Card(11, Diamonds), Card(12, Diamonds), Card(13, Diamonds)>>,
             <<Card(1, Hearts), Card(2, Spades), Card(4, Hearts), Card(5, Spades),
               Card(7, Hearts), Card(8, Spades), Card(10, Hearts), Card(11, Spades),
               Card(12, Hearts), Card(13, Hearts)>>,
             Card(2, Clubs), Card(13, Spades))

\* bot: three melds that the top of the stock completes to eleven melded
\* cards; human: no meld, 5D 6S 8S would lay off on the bot's melds
DeckBigGin ==
    MakeDeck(<<Card(1, Clubs), Card(3, Spades), Card(5, Diamonds), Card(6, Spades),
               Card(8, Spades), Card(8, Hearts), Card(10, Diamonds), Card(11, Clubs),
               Card(12, Hearts), Card(13, Diamonds)>>,
             <<Card(2, Diamonds), Card(3, Diamonds), Card(4, Diamonds),
               Card(6, Clubs), Card(6, Diamonds), Card(6, Hearts),
               Card(9, Spades), Card(10, Spades), Card(11, Spades), Card(12, Spades)>>,
             Card(7, Clubs), Card(13, Spades))

\* further shuffles: build_deck read with stride 7 from offset i
DeckStride(i) == [j \in 1..52 |-> build_deck[((7 * j + i) % 52) + 1]]

DeckOf(i) ==
    CASE i = 1 -> DeckGin
      [] i = 2 -> DeckUndercut
      [] i = 3 -> DeckKnock
      [] i = 4 -> DeckBigGin
      [] OTHER -> DeckStride(i)

\* ------------------------------------------------------------------------
\* State: the Game, the last call made on it (operation, acting player and
\* what it returned), the number of calls that changed the Game, and whether
\* every such call so far was a straight one (a stock draw, a discard of the
\* lowest card without knock, a new round).
\*
\* The driver makes any call while fewer than MaxSteps calls have changed
\* the Game; a session of straight calls only is followed further, up to
\* MaxStraightSteps, which plays a round down to the reserve of the stock.
\* ------------------------------------------------------------------------
\*
\* The other variables belong to the specifications of the pure functions
\* below and stay as they are in this one: cards and analysis are the hand
\* handed to analyze_hand and what it returned; layoff_melds, layoff_deadwood
\* and layoff are the arguments of layoff_cards and what it returned; turn is
\* the last call of take_turn: its difficulty, what the random source gave
\* and the calls it made on the Game; opening_shuffles and opening are the
\* shuffles that opening_draw gets from the random source and what it
\* returned.
VARIABLES game, last, steps, straight, cards, analysis,
          layoff_melds, layoff_deadwood, layoff, turn,
          opening_shuffles, opening

vars == <<game, last, steps, straight, cards, analysis,
          layoff_melds, layoff_deadwood, layoff, turn,
          opening_shuffles, opening>>

gameVars == <<game, last, steps, straight>>

analyzeVars == <<cards, analysis>>

layoffVars == <<layoff_melds, layoff_deadwood, layoff>>

botVars == <<turn>>

openingVars == <<opening_shuffles, opening>>

\* take_turn has not been called
BotIdle == turn = None

\* opening_draw has not been called
OpeningIdle == opening_shuffles = <<>> /\ opening = None

\* no hand has been handed to analyze_hand
AnalyzeIdle == cards = <<>> /\ analysis = None

\* layoff_cards has not been called
LayoffIdle == layoff_melds = <<>> /\ layoff_deadwood = <<>> /\ layoff = None

Init ==
    /\ \E i \in 1..NumDecks : game = GameNew(DeckOf(i)).g
    /\ last = [op |-> "new", player |-> NoPlayer, result |-> Done]
    /\ steps = 0
    /\ straight = TRUE
    /\ AnalyzeIdle
    /\ LayoffIdle
    /\ BotIdle
    /\ OpeningIdle

Allowed(isStraight) ==
    \/ steps < MaxSteps
    \/ straight /\ isStraight /\ steps < MaxStraightSteps

\* Each action is one call by the driver: out is what the call returns and
\* the Game it leaves.
DrawCall(id, source) ==
    LET out == draw(game, id, source)
        changed == out.g # game
    IN  /\ changed => Allowed(source = Stock)
        /\ game' = out.g
        /\ last' = [op |-> "draw", player |-> id, result |-> out.r]
        /\ steps' = IF changed THEN steps + 1 ELSE steps
        /\ straight' = IF changed THEN straight /\ source = Stock ELSE straight
        /\ UNCHANGED <<analyzeVars, layoffVars, botVars, openingVars>>

DiscardCall(id, card_index, declare_knock) ==
    LET out == discard(game, id, card_index, declare_knock)
        changed == out.g # game
    IN  /\ changed => Allowed(card_index = 0 /\ ~declare_knock)
        /\ game' = out.g
        /\ last' = [op |-> "discard", player |-> id, result |-> out.r]
        /\ steps' = IF changed THEN steps + 1 ELSE steps
        /\ straight' = IF changed THEN straight /\ card_index = 0 /\ ~declare_knock
                       ELSE straight
        /\ UNCHANGED <<analyzeVars, layoffVars, botVars, openingVars>>

StartNextRoundCall(i) ==
    LET out == start_next_round(game, DeckOf(i))
        changed == out.g # game
    IN  /\ changed => Allowed(TRUE)
        /\ game' = out.g
        /\ last' = [op |-> "start_next_round", player |-> NoPlayer, result |-> out.r]
        /\ steps' = IF changed THEN steps + 1 ELSE steps
        /\ straight' = straight
        /\ UNCHANGED <<analyzeVars, layoffVars, botVars, openingVars>>

Next ==
    \/ \E id \in PlayerId, source \in DrawSource : DrawCall(id, source)
    \/ \E id \in PlayerId, card_index \in DiscardIndices, declare_knock \in BOOLEAN :
          DiscardCall(id, card_index, declare_knock)
    \/ \E i \in 1..NumDecks : StartNextRoundCall(i)

Spec == Init /\ [][Next]_vars

\* ------------------------------------------------------------------------
\* The specification of legal play without end: the player to move draws
\* from either pile or discards, every call is one the Game accepts, and a
\* new round is dealt after a round has ended, up to MaxRounds rounds. The
\* calls are not counted, so a run of turns can go on for ever.
\* ------------------------------------------------------------------------
MaxRounds == 2

\* the card a player lets go is the highest of the eleven
LiveIndices == {HAND_SIZE}

\* the hands hold the twenty lowest cards, so a card drawn is the highest
\* of the hand; either player can knock with two threes as deadwood
DeckLowHands ==
    MakeDeck(<<Card(1, Clubs), Card(1, Diamonds), Card(1, Hearts), Card(1, Spades),
               Card(2, Clubs), Card(2, Diamonds), Card(2, Hearts), Card(2, Spades),
               Card(3, Clubs), Card(3, Diamonds)>>,
             <<Card(3, Hearts), Card(3, Spades),
               Card(4, Clubs), Card(4, Diamonds), Card(4, Hearts), Card(4, Spades),
               Card(5, Clubs), Card(5, Diamonds), Card(5, Hearts), Card(5, Spades)>>,
             Card(6, Clubs), Card(6, Diamonds))

LiveDecks == {DeckLowHands}

Accepted(r) == r \in {Continue, RoundEnded, Done}

InitLive ==
    /\ \E shuffled \in LiveDecks : game = GameNew(shuffled).g
    /\ last = [op |-> "new", player |-> NoPlayer, result |-> Done]
    /\ steps = 0
    /\ straight = FALSE
    /\ AnalyzeIdle
    /\ LayoffIdle
    /\ BotIdle
    /\ OpeningIdle

LiveDraw(source) ==
    /\ game.phase = AwaitDraw
    /\ \E out \in {draw(game, game.current_player, source)} :
          /\ Accepted(out.r)
          /\ game' = out.g
          /\ last' = [op |-> "draw", player |-> game.current_player, result |-> out.r]
    /\ UNCHANGED <<steps, straight, analyzeVars, layoffVars, botVars, openingVars>>

LiveDrawStock == LiveDraw(Stock)

LiveDrawDiscard == LiveDraw(Discard)

LiveDiscard ==
    /\ game.phase = AwaitDiscard
    /\ \E card_index \in LiveIndices, declare_knock \in BOOLEAN :
          \E out \in {discard(game, game.current_player, card_index, declare_knock)} :
             /\ Accepted(out.r)
             /\ game' = out.g
             /\ last' = [op |-> "discard", player |-> game.current_player, result |-> out.r]
    /\ UNCHANGED <<steps, straight, analyzeVars, layoffVars, botVars, openingVars>>

LiveNextRound ==
    /\ game.phase = RoundOver
    /\ game.scoreboard.rounds_played < MaxRounds
    /\ \E shuffled \in LiveDecks :
       \E out \in {start_next_round(game, shuffled)} :
          /\ Accepted(out.r)
          /\ game' = out.g
          /\ last' = [op |-> "start_next_round", player |-> NoPlayer, result |-> out.r]
    /\ UNCHANGED <<steps, straight, analyzeVars, layoffVars, botVars, openingVars>>

NextLive ==
    \/ LiveDrawStock
    \/ LiveDrawDiscard
    \/ LiveDiscard
    \/ LiveNextRound

\* a draw from the stock is chosen again and again: SF_vars(LiveDrawStock)
\* written out, a draw from the stock being enabled exactly in AwaitDraw
StockChosenAgain ==
    \/ <>[](game.phase # AwaitDraw)
    \/ []<><<LiveDrawStock>>_vars

\* the players keep taking turns, and a draw from the stock is chosen again
\* and again
SpecLive ==
    /\ InitLive
    /\ [][NextLive]_vars
    /\ WF_vars(LiveDiscard)
    /\ StockChosenAgain

\* ------------------------------------------------------------------------
\* The specification of the game with the bot: the application draws the
\* opening cards and restarts the round with the starter they name, the
\* human makes the calls on the Game, and while the round is on and the bot
\* is the current player the application calls take_turn.
\* ------------------------------------------------------------------------
\* the numbers n that the random source can give for the index to discard
RandomIndices == {0, 5, 10}

\* what the random source can give to a turn: nothing is asked of it when
\* the difficulty is Challenging
RandomOf(difficulty) ==
    IF difficulty = Easy THEN {None} \cup {Some(n) : n \in RandomIndices} ELSE {None}

\* the calls that change the Game in a session with the bot
MaxBotSteps == 3

\* the shuffle that deals to each player the hand that shuffled deals to
\* the other
SwapHands(shuffled) ==
    [k \in 1..Len(shuffled) |->
        IF k <= Len(shuffled) - 2 * HAND_SIZE THEN shuffled[k]
        ELSE IF k % 2 = 1 THEN shuffled[k + 1] ELSE shuffled[k - 1]]

InitBot ==
    /\ \E i \in 1..NumDecks, swapped \in BOOLEAN, starter \in PlayerId :
          \E shuffled \in {IF swapped THEN SwapHands(DeckOf(i)) ELSE DeckOf(i)} :
             \E created \in {GameNew(shuffled).g} :
                game = restart_with_starting_player(created, starter, shuffled).g
    /\ last = [op |-> "new", player |-> NoPlayer, result |-> Done]
    /\ steps = 0
    /\ straight = FALSE
    /\ AnalyzeIdle
    /\ LayoffIdle
    /\ BotIdle
    /\ OpeningIdle

\* the calls of the human, made when the human is the current player
HumanDrawCall(source) ==
    /\ steps < MaxBotSteps
    /\ game.phase = AwaitDraw /\ game.current_player = Human
    /\ \E out \in {draw(game, Human, source)} :
        /\ game' = out.g
        /\ last' = [op |-> "draw", player |-> Human, result |-> out.r]
        /\ steps' = steps + 1
        /\ straight' = FALSE
        /\ UNCHANGED <<analyzeVars, layoffVars, botVars, openingVars>>

HumanDiscardCall(card_index, declare_knock) ==
    /\ steps < MaxBotSteps
    /\ game.phase = AwaitDiscard /\ game.current_player = Human
    /\ \E out \in {discard(game, Human, card_index, declare_knock)} :
        /\ game' = out.g
        /\ last' = [op |-> "discard", player |-> Human, result |-> out.r]
        /\ steps' = steps + 1
        /\ straight' = FALSE
        /\ UNCHANGED <<analyzeVars, layoffVars, botVars, openingVars>>

NextRoundCall(i) ==
    /\ steps < MaxBotSteps
    /\ game.phase = RoundOver
    /\ \E out \in {start_next_round(game, DeckOf(i))} :
        /\ game' = out.g
        /\ last' = [op |-> "start_next_round", player |-> NoPlayer, result |-> out.r]
        /\ steps' = steps + 1
        /\ straight' = FALSE
        /\ UNCHANGED <<analyzeVars, layoffVars, botVars, openingVars>>

\* the call of take_turn in the loop of App::update
TakeTurnCall(difficulty, random) ==
    /\ steps < MaxBotSteps
    /\ game.phase # RoundOver /\ game.current_player = Bot
    /\ \E out \in {take_turn(game, difficulty, random)} :
        /\ game' = out.g
        /\ last' = [op |-> "take_turn", player |-> Bot, result |-> out.r]
        /\ steps' = steps + 1
        /\ straight' = FALSE
        /\ turn' = Some([difficulty |-> difficulty, random |-> random,
                         draws |-> out.draws, discards |-> out.discards])
        /\ UNCHANGED <<analyzeVars, layoffVars, openingVars>>

NextBot ==
    \/ \E source \in DrawSource : HumanDrawCall(source)
    \/ \E card_index \in DiscardIndices, declare_knock \in BOOLEAN :
          HumanDiscardCall(card_index, declare_knock)
    \/ \E difficulty \in BotDifficulty : \E random \in RandomOf(difficulty) :
          TakeTurnCall(difficulty, random)
    \/ \E i \in 1..NumDecks : NextRoundCall(i)

SpecBot == InitBot /\ [][NextBot]_vars

\* ------------------------------------------------------------------------
\* Second specification: analyze_hand applied to one hand. The hand is any
\* set of at most MaxHand cards of the ranks 1..MaxRank in the four suits,
\* or a hand dealt by one of the shuffles above (10 cards, and 11 cards with
\* the starter); it is passed in ascending or in descending order.
\* ------------------------------------------------------------------------
MaxRank == 3

MaxHand == 6

SmallCards == {Card(r, s) : r \in 1..MaxRank, s \in Range(SuitALL)}

SmallHands == {h \in SUBSET SmallCards : Cardinality(h) <= MaxHand}

DealtHands ==
    UNION {LET g == GameNew(DeckOf(i)).g
           IN  {Range(g.human.hand), Range(g.bot.hand),
                Range(g.human.hand) \cup Range(g.discard),
                Range(g.bot.hand) \cup Range(g.discard)} : i \in 1..NumDecks}

\* hands around the ends of the rank order: Ace and Two next to Jack, Queen
\* and King of one suit, with two more Kings and one more Ace
WrapCards ==
    {Card(1, Clubs), Card(2, Clubs), Card(11, Clubs), Card(12, Clubs), Card(13, Clubs),
     Card(13, Diamonds), Card(13, Hearts), Card(1, Diamonds)}

WrapHands == SUBSET WrapCards

\* hands of one suit, up to a run of seven
LongRunHands == SUBSET {Card(r, Clubs) : r \in 1..7}

\* the orders of enumeration of the rank groups and of the suit groups
RankOrders == {RankALL, [k \in 1..13 |-> 14 - k]}

SuitOrders == {SuitALL, <<Spades, Hearts, Diamonds, Clubs>>}

Hands == SmallHands \cup DealtHands \cup WrapHands \cup LongRunHands

\* the cards of hand as a Vec, ascending
RECURSIVE Ascending(_)
Ascending(hand) ==
    IF hand = {} THEN <<>>
    ELSE LET low == CHOOSE c \in hand : \A d \in hand : c <= d
         IN  <<low>> \o Ascending(hand \ {low})

Reverse(s) == [i \in 1..Len(s) |-> s[Len(s) + 1 - i]]

\* the Game of the specifications that do not play: just constructed
GameIdle ==
    /\ game = GameNew(DeckOf(1)).g
    /\ last = [op |-> "new", player |-> NoPlayer, result |-> Done]
    /\ steps = 0
    /\ straight = TRUE

InitAnalyze ==
    /\ GameIdle
    /\ LayoffIdle
    /\ BotIdle
    /\ OpeningIdle
    /\ \E hand \in Hands, descending \in BOOLEAN :
          cards = IF descending THEN Reverse(Ascending(hand)) ELSE Ascending(hand)
    /\ analysis = None

AnalyzeCall ==
    /\ analysis = None
    /\ \E rank_order \in RankOrders, suit_order \in SuitOrders :
          analysis' = Some(analyze_hand_in(cards, rank_order, suit_order))
    /\ UNCHANGED <<gameVars, cards, layoffVars, botVars, openingVars>>

NextAnalyze == AnalyzeCall

SpecAnalyze == InitAnalyze /\ [][NextAnalyze]_vars

\* ------------------------------------------------------------------------
\* Third specification: layoff_cards applied to the melds of a knocker and
\* the deadwood of an opponent. The melds are at most MaxMelds melds of
\* MeldPool in any order, the deadwood at most MaxDeadwood cards of
\* LayoffPool in any order.
\* ------------------------------------------------------------------------
MaxMelds == 2

MaxDeadwood == 3

\* 7C fits the run of clubs and the set of sevens, 8C and 9C fit the run of
\* clubs once it has grown; 4S and 10D extend a run at one end only, the
\* other end being the Ace or the King
MeldPool ==
    {MeldNew(RunKind, <<Card(4, Clubs), Card(5, Clubs), Card(6, Clubs)>>),
     MeldNew(SetKind, <<Card(7, Diamonds), Card(7, Hearts), Card(7, Spades)>>),
     MeldNew(RunKind, <<Card(1, Spades), Card(2, Spades), Card(3, Spades)>>),
     MeldNew(RunKind, <<Card(11, Diamonds), Card(12, Diamonds), Card(13, Diamonds)>>)}

LayoffPool ==
    {Card(3, Clubs), Card(7, Clubs), Card(8, Clubs), Card(9, Clubs),
     Card(4, Spades), Card(10, Diamonds)}

\* the sequences without repetition of at most n elements of pool
RECURSIVE Arrangements(_, _)
Arrangements(pool, n) ==
    IF n = 0 THEN {<<>>}
    ELSE LET shorter == Arrangements(pool, n - 1)
         IN  shorter \cup UNION {{Append(s, x) : x \in pool \ Range(s)} : s \in shorter}

InitLayoff ==
    /\ GameIdle
    /\ AnalyzeIdle
    /\ BotIdle
    /\ OpeningIdle
    /\ layoff_melds \in Arrangements(MeldPool, MaxMelds)
    /\ layoff_deadwood \in Arrangements(LayoffPool, MaxDeadwood)
    /\ layoff = None

LayoffCall ==
    /\ layoff = None
    /\ layoff' = Some(layoff_cards(layoff_deadwood, layoff_melds))
    /\ UNCHANGED <<gameVars, analyzeVars, layoff_melds, layoff_deadwood, botVars, openingVars>>

NextLayoff == LayoffCall

SpecLayoff == InitLayoff /\ [][NextLayoff]_vars

\* ------------------------------------------------------------------------
\* The specification of the opening draw: opening_draw is called on a Game
\* just constructed, with every sequence of at most MaxShuffles shuffles of
\* OpeningDecks.
\* ------------------------------------------------------------------------
MaxShift == 4

MaxShuffles == 2

\* deck with its first n cards moved to the end
Rotate(deck, n) == [k \in 1..Len(deck) |-> deck[((k - 1 + n) % Len(deck)) + 1]]

\* the deck by rank, then suit: each pair that opening_draw pops from it has
\* one rank
RankMajorDeck == [k \in 1..52 |-> k - 1]

\* shuffles: build_deck cut at 0..MaxShift pops King and Queen, Queen and
\* Jack, Jack and Ten, Ten and Nine, Nine and Eight first; its reverse pops
\* low cards, the lower to the human; RankMajorDeck gives 26 ties
OpeningDecks ==
    {Rotate(build_deck, 52 - n) : n \in 0..MaxShift}
        \cup {Reverse(Rotate(build_deck, 52 - n)) : n \in 0..MaxShift}
        \cup {RankMajorDeck}

RECURSIVE ShuffleSeqs(_)
ShuffleSeqs(n) ==
    IF n = 0 THEN {<<>>}
    ELSE LET shorter == ShuffleSeqs(n - 1)
         IN  shorter \cup UNION {{Append(s, d) : d \in OpeningDecks} : s \in shorter}

InitOpening ==
    /\ GameIdle
    /\ AnalyzeIdle
    /\ LayoffIdle
    /\ BotIdle
    /\ opening_shuffles \in ShuffleSeqs(MaxShuffles) \ {<<>>}
    /\ opening = None

\* a call of opening_draw that returns
OpeningDrawCall ==
    /\ opening = None
    /\ \E out \in {opening_draw(game, opening_shuffles)} :
        /\ out.r # None
        /\ game' = out.g
        /\ opening' = out.r
    /\ UNCHANGED <<last, steps, straight, analyzeVars, layoffVars, botVars, opening_shuffles>>

NextOpening == OpeningDrawCall

SpecOpening == InitOpening /\ [][NextOpening]_vars

\* ------------------------------------------------------------------------
\* Properties
\* ------------------------------------------------------------------------
HandOf(id) == player(game, id).hand

AllCards == game.human.hand \o game.bot.hand \o game.stock \o game.discard

\* the round ended by a knock; the hands are those the knock was resolved on
KnockEnded ==
    /\ game.phase = RoundOver
    /\ game.pending_round # None
    /\ game.pending_round[1].reason.kind = "Knock"

Result == game.pending_round[1]

Knocker == Result.reason.knocker

KnockerDeadwood == analyze_hand(HandOf(Knocker)).deadwood_value

OpponentDeadwood == analyze_hand(HandOf(Other(Knocker))).deadwood_value

OpponentAfterLayoff ==
    SumValues(layoff_cards(analyze_hand(HandOf(Other(Knocker))).deadwood,
                           analyze_hand(HandOf(Knocker)).melds)[1])

\* C1: a discard with declare_knock that is refused because the deadwood of
\* the hand left is above 10 leaves the Game exactly as it was before the call.
C1_RefusedKnockLeavesGame ==
    [][(last'.op = "discard" /\ last'.result = ErrDeadwood) => game' = game]_vars

\* C2: in AwaitDraw both hands hold 10 cards; in AwaitDiscard the current
\* player holds 11 cards and the other player 10.
C2_HandSizes ==
    /\ game.phase = AwaitDraw =>
          Len(game.human.hand) = HAND_SIZE /\ Len(game.bot.hand) = HAND_SIZE
    /\ game.phase = AwaitDiscard =>
          /\ Len(HandOf(game.current_player)) = HAND_SIZE + 1
          /\ Len(HandOf(Other(game.current_player))) = HAND_SIZE

\* C3: the two hands, the stock and the discard pile together hold each of
\* the 52 cards exactly once.
C3_CardsConserved == Sort(AllCards) = Sort(build_deck)

\* a draw in a second round, after a refused knock or not: every operation
\* that moves cards has acted
C3_Witness ==
    /\ game.scoreboard.rounds_played >= 1
    /\ last.op = "draw" /\ last.result = Continue
    /\ Len(game.discard) = 1 /\ Len(game.stock) = 30

\* C4: the phase changes only along AwaitDraw -> AwaitDiscard (draw that
\* continues), AwaitDraw -> RoundOver (draw that ends the round by Big Gin or
\* stock depletion), AwaitDiscard -> AwaitDraw (discard without knock),
\* AwaitDiscard -> RoundOver (discard with an accepted knock) and
\* RoundOver -> AwaitDraw (start_next_round); a successful call takes its
\* edge, and in RoundOver neither draw nor discard changes the phase.
C4_PhaseEdges ==
    [][/\ game'.phase # game.phase =>
            \/ /\ game.phase = AwaitDraw /\ game'.phase = AwaitDiscard
               /\ last'.op = "draw" /\ last'.result = Continue
            \/ /\ game.phase = AwaitDraw /\ game'.phase = RoundOver
               /\ last'.op = "draw" /\ last'.result = RoundEnded
               /\ game'.pending_round[1].reason.kind \in {"BigGin", "StockDepleted"}
            \/ /\ game.phase = AwaitDiscard /\ game'.phase = AwaitDraw
               /\ last'.op = "discard" /\ last'.result = Continue
            \/ /\ game.phase = AwaitDiscard /\ game'.phase = RoundOver
               /\ last'.op = "discard" /\ last'.result = RoundEnded
               /\ game'.pending_round[1].reason.kind = "Knock"
            \/ /\ game.phase = RoundOver /\ game'.phase = AwaitDraw
               /\ last'.op = "start_next_round" /\ last'.result = Done
       /\ last'.op = "draw" /\ last'.result = Continue =>
            game.phase = AwaitDraw /\ game'.phase = AwaitDiscard
       /\ last'.op = "discard" /\ last'.result = Continue =>
            game.phase = AwaitDiscard /\ game'.phase = AwaitDraw
       /\ last'.result = RoundEnded =>
            game.phase \in {AwaitDraw, AwaitDiscard} /\ game'.phase = RoundOver
       /\ game.phase = RoundOver /\ last'.op \in {"draw", "discard"} =>
            game'.phase = RoundOver
      ]_vars

\* a second round that is waiting for a discard: the phase has gone round
\* the whole cycle
C4_Witness ==
    /\ game.scoreboard.rounds_played >= 1
    /\ game.phase = AwaitDiscard

\* C5: within a round current_player changes only by a successful discard
\* without knock, which makes it the other player; a successful draw and a
\* successful discard are made by the current player, the draw keeps
\* current_player, so turns are one draw then one discard by the same player
\* and the players alternate.
C5_TurnsAlternate ==
    [][/\ (game'.current_player # game.current_player /\ game.phase # RoundOver) =>
            /\ last'.op = "discard" /\ last'.result = Continue
            /\ game.phase = AwaitDiscard /\ game'.phase = AwaitDraw
       /\ last'.op = "discard" /\ last'.result = Continue =>
            /\ last'.player = game.current_player
            /\ game'.current_player = Other(game.current_player)
       /\ last'.op = "draw" /\ last'.result = Continue =>
            /\ last'.player = game.current_player
            /\ game'.current_player = game.current_player
            /\ game.phase = AwaitDraw /\ game'.phase = AwaitDiscard
      ]_vars

\* the second player has drawn after the first player's discard
C5_Witness ==
    /\ game.scoreboard.rounds_played = 0
    /\ game.current_player = Bot
    /\ game.phase = AwaitDiscard
    /\ last.op = "draw" /\ last.player = Bot /\ last.result = Continue

\* C6: a draw or a discard in the wrong phase, by the player whose turn it is
\* not, or with an index that is not in the hand, returns the error and the
\* Game unchanged.
C6_RejectedCallsLeaveGame ==
    \A id \in PlayerId :
        /\ \A source \in DrawSource :
              LET out == draw(game, id, source)
              IN  /\ game.phase # AwaitDraw => out.r = ErrNotDraw /\ out.g = game
                  /\ (game.phase = AwaitDraw /\ id # game.current_player) =>
                        out.r = ErrNotTurn /\ out.g = game
        /\ \A card_index \in DiscardIndices, declare_knock \in BOOLEAN :
              LET out == discard(game, id, card_index, declare_knock)
              IN  /\ game.phase # AwaitDiscard => out.r = ErrNotDiscard /\ out.g = game
                  /\ (game.phase = AwaitDiscard /\ id # game.current_player) =>
                        out.r = ErrNotTurn /\ out.g = game
                  /\ (game.phase = AwaitDiscard /\ id = game.current_player
                         /\ card_index >= Len(HandOf(id))) =>
                        out.r = ErrIndex /\ out.g = game

\* the current player has just been refused an index beyond the hand
C6_Witness ==
    /\ game.phase = AwaitDiscard
    /\ last.op = "discard" /\ last.player = game.current_player
    /\ last.result = ErrIndex

\* C7: a discard with knock by the current player at a valid index ends the
\* round as a Knock when the deadwood of the hand left is at most 10 and is
\* refused when it is above 10; a stored Knock has knocker_deadwood <= 10.
C7_KnockLimit ==
    /\ game.phase = AwaitDiscard =>
          \A card_index \in DiscardIndices :
              card_index < Len(HandOf(game.current_player)) =>
                  LET out == discard(game, game.current_player, card_index, TRUE)
                      left == RemoveAt(HandOf(game.current_player), card_index)
                      value == analyze_hand(left).deadwood_value
                  IN  /\ value <= 10 =>
                            /\ out.r = RoundEnded
                            /\ out.g.phase = RoundOver
                            /\ out.g.pending_round[1].reason.kind = "Knock"
                            /\ out.g.pending_round[1].reason.knocker_deadwood = value
                      /\ value > 10 =>
                            /\ out.r = ErrDeadwood
                            /\ out.g.phase = AwaitDiscard
                            /\ out.g.pending_round = None
    /\ KnockEnded => Result.reason.knocker_deadwood <= 10
    /\ last.result = ErrDeadwood =>
          analyze_hand(HandOf(last.player)).deadwood_value > 10

\* a knock with deadwood exactly 10 has been accepted
C7_Witness ==
    /\ KnockEnded
    /\ last.op = "discard" /\ last.result = RoundEnded
    /\ Result.reason.knocker_deadwood = 10
    /\ KnockerDeadwood = 10

\* C8: after a knock that is not gin, when the opponent's deadwood value
\* after layoff is at most the knocker's, the result is an undercut won by
\* the opponent with (knocker deadwood - opponent remaining) + 25 points.
C8_Undercut ==
    (KnockEnded /\ KnockerDeadwood > 0 /\ OpponentAfterLayoff <= KnockerDeadwood) =>
        /\ Result.reason.undercut
        /\ ~Result.reason.gin
        /\ Result.winner = Other(Knocker)
        /\ Result.points_awarded = (KnockerDeadwood - OpponentAfterLayoff) + 25

\* knocker 8, opponent 5 after layoff: 28 points to the opponent
C8_Witness ==
    /\ KnockEnded
    /\ KnockerDeadwood = 8 /\ OpponentAfterLayoff = 5
    /\ Result.winner = Other(Knocker)
    /\ Result.points_awarded = 28

\* C9: after a knock with deadwood 0 the result has gin set, nothing laid
\* off, no undercut, the knocker as winner and the opponent's whole deadwood
\* value + 25 as points.
C9_Gin ==
    (KnockEnded /\ KnockerDeadwood = 0) =>
        /\ Result.reason.gin
        /\ Result.reason.laid_off = <<>>
        /\ ~Result.reason.undercut
        /\ Result.winner = Knocker
        /\ Result.reason.opponent_deadwood = OpponentDeadwood
        /\ Result.points_awarded = OpponentDeadwood + 25

\* gin against an opponent whose deadwood is 0 as well
C9_Witness ==
    /\ KnockEnded
    /\ KnockerDeadwood = 0 /\ OpponentDeadwood = 0
    /\ Result.winner = Knocker
    /\ Result.points_awarded = 25

\* C10: after a knock that is not gin, when the opponent's deadwood value
\* after layoff is above the knocker's, the knocker wins without undercut
\* and scores the difference, no bonus.
C10_KnockerWins ==
    (KnockEnded /\ KnockerDeadwood > 0 /\ OpponentAfterLayoff > KnockerDeadwood) =>
        /\ Result.winner = Knocker
        /\ ~Result.reason.undercut
        /\ ~Result.reason.gin
        /\ Result.points_awarded = OpponentAfterLayoff - KnockerDeadwood

\* the knocker wins with deadwood left
C10_Witness ==
    /\ KnockEnded
    /\ KnockerDeadwood > 0 /\ OpponentAfterLayoff > KnockerDeadwood
    /\ Result.winner = Knocker

\* the round has just ended: the step enters RoundOver
RoundEnds == game.phase # RoundOver /\ game'.phase = RoundOver

HasResult == game.pending_round # None

\* C11: a draw that leaves the drawing player with 11 cards of deadwood
\* value 0 ends the round as Big Gin in that call: phase RoundOver, nothing
\* pushed on the discard pile, the drawing player wins the opponent's whole
\* deadwood value + 31.
C11_BigGin ==
    [][(/\ last'.op = "draw" /\ last'.result \in {Continue, RoundEnded}
        /\ Len(player(game', last'.player).hand) = 11
        /\ Len(player(game, last'.player).hand) = 10
        /\ analyze_hand(player(game', last'.player).hand).deadwood_value = 0) =>
            LET id == last'.player
                res == game'.pending_round[1]
                opponent_value == analyze_hand(player(game, Other(id)).hand).deadwood_value
            IN  /\ last'.result = RoundEnded
                /\ game.phase = AwaitDraw /\ game'.phase = RoundOver
                /\ game'.pending_round # None
                /\ res.reason.kind = "BigGin"
                /\ res.reason.player = id
                /\ res.winner = id
                /\ res.reason.opponent_deadwood = opponent_value
                /\ res.points_awarded = opponent_value + 31
                /\ game'.discard \in {game.discard, Front(game.discard)}
                /\ player(game', Other(id)).hand = player(game, Other(id)).hand
      ]_vars

\* the bot has drawn the top of the stock into eleven melded cards while the
\* human holds deadwood that would lay off
C11_Witness ==
    /\ game.phase = RoundOver /\ HasResult
    /\ Result.reason.kind = "BigGin"
    /\ Result.winner = Bot
    /\ last.op = "draw" /\ last.player = Bot
    /\ Len(game.bot.hand) = 11
    /\ Len(game.stock) = 30 /\ Len(game.discard) = 1
    /\ Result.points_awarded > 31

\* C12: a draw from the stock by the current player in AwaitDraw with 2 or
\* fewer cards in the stock ends the round as StockDepleted: hands and piles
\* stay, no winner, 0 points, draws + 1, points and hands won unchanged,
\* phase RoundOver.
C12_StockDepleted ==
    /\ (game.phase = AwaitDraw /\ Len(game.stock) <= 2) =>
          LET out == draw(game, game.current_player, Stock)
              res == out.g.pending_round[1]
          IN  /\ out.r = RoundEnded
              /\ out.g.phase = RoundOver
              /\ out.g.human = game.human /\ out.g.bot = game.bot
              /\ out.g.stock = game.stock /\ out.g.discard = game.discard
              /\ out.g.pending_round # None
              /\ res.reason.kind = "StockDepleted"
              /\ res.winner = NoPlayer
              /\ res.points_awarded = 0
              /\ out.g.scoreboard =
                    [game.scoreboard EXCEPT !.draws = @ + 1, !.rounds_played = @ + 1]
    /\ (HasResult /\ Result.reason.kind = "StockDepleted") =>
          /\ game.phase = RoundOver
          /\ Len(game.stock) <= 2
          /\ Result.winner = NoPlayer /\ Result.points_awarded = 0
          /\ game.scoreboard.draws >= 1

\* a round has ended on the reserve of the stock
C12_Witness ==
    /\ game.phase = RoundOver /\ HasResult
    /\ Result.reason.kind = "StockDepleted"
    /\ last.op = "draw" /\ last.result = RoundEnded
    /\ Len(game.stock) = 2
    /\ game.scoreboard.draws = 1
    /\ game.scoreboard.human = 0 /\ game.scoreboard.bot = 0

\* C13: the stock always holds at least 2 cards, and no deal and no draw
\* fails on an empty stock.
C13_StockReserve ==
    /\ Len(game.stock) >= 2
    /\ last.result # ErrStockEmpty
    /\ \A id \in PlayerId : draw(game, id, Stock).r # ErrStockEmpty
    /\ \A i \in 1..NumDecks : start_round(game, DeckOf(i)).r = Done

\* the stock is down to its reserve and the next player is to draw
C13_Witness ==
    /\ game.phase = AwaitDraw
    /\ Len(game.stock) = 2
    /\ last.op = "discard" /\ last.result = Continue

\* C14: the scoreboard changes only when a round ends, and then: with a
\* winner only the winner's points grow by points_awarded and only the
\* winner's hands won by 1, with no winner only draws grows by 1, and
\* rounds_played grows by 1 in both cases.
C14_ScoreboardUpdate ==
    [][/\ RoundEnds =>
            LET res == game'.pending_round[1]
                sb == game.scoreboard
            IN  game'.scoreboard =
                    CASE res.winner = Human ->
                           [sb EXCEPT !.human = @ + res.points_awarded,
                                      !.human_hands_won = @ + 1,
                                      !.rounds_played = @ + 1]
                      [] res.winner = Bot ->
                           [sb EXCEPT !.bot = @ + res.points_awarded,
                                      !.bot_hands_won = @ + 1,
                                      !.rounds_played = @ + 1]
                      [] OTHER ->
                           [sb EXCEPT !.draws = @ + 1, !.rounds_played = @ + 1]
       /\ game'.scoreboard # game.scoreboard => RoundEnds
      ]_vars

\* the bot has won a round with points after the human had won one
C14_Witness ==
    /\ game.phase = RoundOver /\ HasResult
    /\ Result.winner = Bot /\ Result.points_awarded > 0
    /\ game.scoreboard.rounds_played = 2
    /\ game.scoreboard.human_hands_won = 1 /\ game.scoreboard.bot_hands_won = 1
    /\ game.scoreboard.bot = Result.points_awarded

\* C15: when a round ends with a winner the dealer becomes the loser, with
\* no winner the dealer becomes the other player; start_next_round keeps the
\* dealer and gives the first turn to the player who is not the dealer, that
\* is to the winner of the round just ended.
C15_DealerRotation ==
    [][/\ RoundEnds =>
            LET res == game'.pending_round[1]
            IN  /\ res.winner # NoPlayer => game'.dealer = Other(res.winner)
                /\ res.winner = NoPlayer => game'.dealer = Other(game.dealer)
                /\ game'.last_round_winner = res.winner
                /\ (res.reason.kind = "Knock" /\ res.reason.undercut) =>
                      res.winner = Other(res.reason.knocker)
       /\ (game.phase = RoundOver /\ game'.phase = AwaitDraw) =>
            /\ game'.dealer = game.dealer
            /\ game'.current_player = Other(game.dealer)
            /\ game.pending_round[1].winner # NoPlayer =>
                  game'.current_player = game.pending_round[1].winner
      ]_vars

\* a round started after an undercut: the opponent of the knocker moves first
C15_Witness ==
    /\ game.phase = AwaitDraw
    /\ last.op = "start_next_round" /\ last.result = Done
    /\ game.last_round_winner = Bot
    /\ game.current_player = Bot /\ game.dealer = Human
    /\ game.scoreboard.bot >= 25

\* C16: pending_round is present exactly when the phase is RoundOver; it is
\* set by the step into RoundOver, kept while the phase stays RoundOver and
\* cleared by the start of the next round.
C16_PendingRound ==
    /\ [](HasResult <=> game.phase = RoundOver)
    /\ [][/\ (game.phase = RoundOver /\ game'.phase = RoundOver) =>
                game'.pending_round = game.pending_round
          /\ game'.pending_round # game.pending_round =>
                \/ RoundEnds /\ game.pending_round = None /\ game'.pending_round # None
                \/ /\ game.phase = RoundOver /\ game'.phase = AwaitDraw
                   /\ game'.pending_round = None
                   /\ last'.op = "start_next_round"
         ]_vars

\* a second round is under way after the result of the first was cleared
C16_Witness ==
    /\ game.scoreboard.rounds_played = 1
    /\ game.phase = AwaitDraw
    /\ ~HasResult
    /\ last.op = "start_next_round" /\ last.result = Done

\* C17: start_next_round in AwaitDraw or AwaitDiscard fails and returns the
\* Game unchanged; in RoundOver it succeeds and the phase becomes AwaitDraw.
C17_StartNextRound ==
    \A i \in 1..NumDecks :
        LET out == start_next_round(game, DeckOf(i))
        IN  /\ game.phase # RoundOver => out.r = ErrInProgress /\ out.g = game
            /\ game.phase = RoundOver => out.r = Done /\ out.g.phase = AwaitDraw

\* start_next_round has just been refused during a turn
C17_Witness ==
    /\ game.phase = AwaitDiscard
    /\ last.op = "start_next_round" /\ last.result = ErrInProgress

\* the state is the one start_round has left
JustDealt ==
    \/ last.op = "new"
    \/ last.op = "start_next_round" /\ last.result = Done

\* C18: right after start_round each hand holds 10 cards, the discard pile
\* 1, the stock 31, the phase is AwaitDraw, current_player is the player who
\* is not the dealer, pending_round is absent; the scoreboard and the dealer
\* are those from before the call (the fresh scoreboard and Bot at
\* construction).
C18_AfterStartRound ==
    /\ [](JustDealt =>
            /\ Len(game.human.hand) = 10 /\ Len(game.bot.hand) = 10
            /\ Len(game.discard) = 1 /\ Len(game.stock) = 31
            /\ game.phase = AwaitDraw
            /\ game.current_player = Other(game.dealer)
            /\ game.pending_round = None)
    /\ [](last.op = "new" => game.scoreboard = ScoreboardDefault /\ game.dealer = Bot)
    /\ [][(last'.op = "start_next_round" /\ last'.result = Done) =>
              /\ game'.scoreboard = game.scoreboard
              /\ game'.dealer = game.dealer
         ]_vars

\* a deal after a round the human won: the human moves first, the score stays
C18_Witness ==
    /\ last.op = "start_next_round" /\ last.result = Done
    /\ game.scoreboard.rounds_played = 1 /\ game.scoreboard.human > 0
    /\ game.dealer = Bot /\ game.current_player = Human
    /\ Len(game.stock) = 31

\* ------------------------------------------------------------------------
\* Properties of analyze_hand
\* ------------------------------------------------------------------------
Analyzed == analysis # None

Analysis == analysis[1]

\* the cards of all melds of the analysis, meld after meld
MeldCards == Flatten([i \in 1..Len(Analysis.melds) |-> Analysis.melds[i].cards])

Occurrences(s, c) == Cardinality({i \in 1..Len(s) : s[i] = c})

RECURSIVE ValueOf(_)
\* the point value of a set of cards
ValueOf(hand) ==
    IF hand = {} THEN 0
    ELSE LET c == CHOOSE x \in hand : TRUE
         IN  CardValue(c) + ValueOf(hand \ {c})

\* a valid Set: 3 or 4 cards of one rank
IsSet(m) ==
    /\ Cardinality(m) \in {3, 4}
    /\ \A c, d \in m : RankOf(c) = RankOf(d)

\* a valid Run: 3 or more cards of one suit whose ranks are consecutive
IsRun(m) ==
    /\ Cardinality(m) >= 3
    /\ \A c, d \in m : SuitOf(c) = SuitOf(d)
    /\ \A c \in m : \/ \A d \in m : RankOf(c) <= RankOf(d)
                    \/ \E d \in m : RankOf(d) + 1 = RankOf(c)

ValidMelds(hand) == {m \in SUBSET hand : IsSet(m) \/ IsRun(m)}

\* every way of choosing pairwise card-disjoint valid melds from hand
Packings(hand) ==
    {P \in SUBSET ValidMelds(hand) : \A m, n \in P : m = n \/ m \cap n = {}}

\* C19: for a duplicate-free hand the melds and the deadwood of analyze_hand
\* partition the hand: every card of the hand is once in one meld or once in
\* the deadwood, no other card appears, no two melds share a card, and
\* deadwood_value is the sum of the values of the deadwood cards.
C19_Partition ==
    Analyzed =>
        LET all == MeldCards \o Analysis.deadwood
        IN  /\ \A c \in Range(cards) : Occurrences(all, c) = 1
            /\ \A i \in 1..Len(all) : all[i] \in Range(cards)
            /\ \A i, j \in 1..Len(Analysis.melds) :
                  i # j => Range(Analysis.melds[i].cards) \cap Range(Analysis.melds[j].cards) = {}
            /\ \A i \in 1..Len(Analysis.melds) :
                  Range(Analysis.melds[i].cards) \cap Range(Analysis.deadwood) = {}
            /\ Analysis.deadwood_value = ValueOf(Range(Analysis.deadwood))

\* an unsorted hand came back as two or more melds and some deadwood
C19_Witness ==
    /\ Analyzed
    /\ cards # Sort(cards)
    /\ Len(Analysis.melds) >= 2
    /\ Analysis.deadwood # <<>>

\* C20: the deadwood_value of analyze_hand is minimal: no choice of pairwise
\* card-disjoint valid sets and runs from the hand leaves cards of a lower
\* total value.
C20_Minimal ==
    Analyzed =>
        \A P \in Packings(Range(cards)) :
            ValueOf(Range(cards) \ UNION P) >= Analysis.deadwood_value

\* the hand has a set and a run that share a card, and melding one of them
\* leaves more deadwood than the analysis
C20_Witness ==
    /\ Analyzed
    /\ Analysis.deadwood_value > 0
    /\ \E m, n \in ValidMelds(Range(cards)) :
          /\ IsSet(m) /\ IsRun(n) /\ m \cap n # {}
          /\ ValueOf(Range(cards) \ m) # ValueOf(Range(cards) \ n)
    /\ \E P \in Packings(Range(cards)) :
          /\ P # {}
          /\ ValueOf(Range(cards) \ UNION P) > Analysis.deadwood_value

\* C21: every meld of the analysis is valid: a Set holds 3 or 4 cards of one
\* rank in pairwise distinct suits, a Run holds at least 3 cards of one suit
\* whose ranks ascend by exactly 1, the Ace being rank 1 only, so that no
\* Run holds a King and an Ace of which the Ace is not the lowest card of a
\* run from the Ace upwards.
C21_MeldsValid ==
    Analyzed =>
        \A i \in 1..Len(Analysis.melds) :
            LET meld == Analysis.melds[i]
                n == Len(meld.cards)
            IN  /\ meld.kind \in {SetKind, RunKind}
                /\ meld.kind = SetKind =>
                      /\ n \in {3, 4}
                      /\ \A j, k \in 1..n : RankOf(meld.cards[j]) = RankOf(meld.cards[k])
                      /\ \A j, k \in 1..n :
                            j # k => SuitOf(meld.cards[j]) # SuitOf(meld.cards[k])
                /\ meld.kind = RunKind =>
                      /\ n >= 3
                      /\ \A j, k \in 1..n : SuitOf(meld.cards[j]) = SuitOf(meld.cards[k])
                      /\ \A j \in 1..(n - 1) :
                            RankOf(meld.cards[j + 1]) = RankOf(meld.cards[j]) + 1
                      /\ \A j \in 2..n : RankOf(meld.cards[j]) # 1

\* a hand with Queen, King and Ace of clubs, analysed into a run that holds
\* the King and leaves the Ace out
C21_Witness ==
    /\ Analyzed
    /\ {Card(12, Clubs), Card(13, Clubs), Card(1, Clubs)} \subseteq Range(cards)
    /\ \E i \in 1..Len(Analysis.melds) :
          /\ Analysis.melds[i].kind = RunKind
          /\ Contains(Analysis.melds[i].cards, Card(13, Clubs))
    /\ Contains(Analysis.deadwood, Card(1, Clubs))

\* C22: among the choices of pairwise disjoint valid melds that reach the
\* deadwood value of the analysis, none has more melds than the analysis.
C22_MostMelds ==
    Analyzed =>
        \A P \in Packings(Range(cards)) :
            ValueOf(Range(cards) \ UNION P) = Analysis.deadwood_value =>
                Cardinality(P) <= Len(Analysis.melds)

\* a run of six cards and nothing else came back as two runs of three
C22_Witness ==
    /\ Analyzed
    /\ Len(cards) = 6
    /\ IsRun(Range(cards))
    /\ Len(Analysis.melds) = 2
    /\ Analysis.deadwood = <<>>

\* C23: the analysis of a hand is the same whatever the order of the cards
\* handed in and whatever the order in which the rank groups and the suit
\* groups are enumerated: every analysis reached, from either order of the
\* cards and any order of the groups, is the analysis of the ascending hand
\* with the groups in ascending order: same melds in the same order, same
\* deadwood, same deadwood_value.
C23_Deterministic ==
    Analyzed => Analysis = analyze_hand(Ascending(Range(cards)))

\* a hand handed in descending order with a set, a run and deadwood
C23_Witness ==
    /\ Analyzed
    /\ Len(cards) >= 2 /\ cards[1] > cards[2]
    /\ \E i, j \in 1..Len(Analysis.melds) :
          Analysis.melds[i].kind = SetKind /\ Analysis.melds[j].kind = RunKind
    /\ Len(Analysis.deadwood) >= 2

\* ------------------------------------------------------------------------
\* Properties of can_layoff and layoff_cards
\* ------------------------------------------------------------------------
LaidOff == layoff # None

Remaining == layoff[1][1]

LaidOffCards == layoff[1][2]

\* the rule of laying off on a meld given by its kind and its set of cards:
\* a Set takes the cards of its rank, a Run the card of its suit one rank
\* below its lowest or one rank above its highest card
Takes(kind, meld_cards, card) ==
    IF kind = SetKind
    THEN \E d \in meld_cards : RankOf(d) = RankOf(card)
    ELSE /\ \E d \in meld_cards : SuitOf(d) = SuitOf(card)
         /\ \/ /\ \E d \in meld_cards : RankOf(d) = RankOf(card) + 1
               /\ \A d \in meld_cards : RankOf(d) > RankOf(card)
            \/ /\ \E d \in meld_cards : RankOf(d) + 1 = RankOf(card)
               /\ \A d \in meld_cards : RankOf(d) < RankOf(card)

\* C24: can_layoff holds for a Set exactly for the cards of the set's rank
\* and for a Run exactly for the card of the run's suit one rank below its
\* lowest or one rank above its highest card; cards of the suit inside the
\* run or further away are refused, and a run from the Ace takes nothing
\* below, a run up to the King nothing above.
C24_CanLayoff ==
    LaidOff => \A i \in 1..Len(layoff_melds), r \in 1..13, s \in Range(SuitALL) :
        LET meld == layoff_melds[i]
            card == Card(r, s)
            ranks == {RankOf(meld.cards[k]) : k \in 1..Len(meld.cards)}
            low == CHOOSE x \in ranks : \A y \in ranks : x <= y
            high == CHOOSE x \in ranks : \A y \in ranks : x >= y
        IN  /\ can_layoff(meld, card) <=> Takes(meld.kind, Range(meld.cards), card)
            /\ meld.kind = SetKind => (can_layoff(meld, card) <=> r = low)
            /\ meld.kind = RunKind =>
                  /\ (r >= low /\ r <= high) => ~can_layoff(meld, card)
                  /\ (r < low - 1 \/ r > high + 1) => ~can_layoff(meld, card)
                  /\ SuitOf(meld.cards[1]) # s => ~can_layoff(meld, card)
                  /\ (low = 1 /\ can_layoff(meld, card)) => r = high + 1
                  /\ (high = 13 /\ can_layoff(meld, card)) => r = low - 1

\* the melds are the run from the Ace and the run up to the King, and the
\* cards that extend them at their open ends have been laid off
C24_Witness ==
    /\ LaidOff
    /\ \E i, j \in 1..Len(layoff_melds) :
          /\ layoff_melds[i].kind = RunKind /\ RankOf(layoff_melds[i].cards[1]) = 1
          /\ layoff_melds[j].kind = RunKind /\ Contains(layoff_melds[j].cards, Card(13, Diamonds))
    /\ Contains(LaidOffCards, Card(4, Spades))
    /\ Contains(LaidOffCards, Card(10, Diamonds))
    /\ Contains(Remaining, Card(7, Clubs))

\* the sets of cards of the melds after the cards of laid have been
\* attached, each to the first meld that takes it
RECURSIVE Grown(_, _)
Grown(meld_sets, laid) ==
    IF laid = <<>> THEN meld_sets
    ELSE LET card == Head(laid)
             takers == {j \in 1..Len(meld_sets) :
                           Takes(meld_sets[j].kind, meld_sets[j].cards, card)}
             first == CHOOSE j \in takers : \A k \in takers : j <= k
         IN  IF takers = {} THEN Grown(meld_sets, Tail(laid))
             ELSE Grown([meld_sets EXCEPT ![first].cards = @ \cup {card}], Tail(laid))

MeldSets == [j \in 1..Len(layoff_melds) |->
                [kind |-> layoff_melds[j].kind, cards |-> Range(layoff_melds[j].cards)]]

\* the melds as grown by the cards laid off among the first n deadwood cards
GrownBefore(n) ==
    Grown(MeldSets, Filter(SubSeq(layoff_deadwood, 1, n),
                           LAMBDA c : Contains(LaidOffCards, c)))

TakenBy(meld_sets, card) ==
    \E j \in 1..Len(meld_sets) : Takes(meld_sets[j].kind, meld_sets[j].cards, card)

\* C25: layoff_cards passes once over the deadwood in its order: a card is
\* laid off exactly when one of the melds, as grown by the cards laid off
\* before it, takes it; laid_off and remaining keep the order of the
\* deadwood and share it out; a card that no meld took when it was met
\* stays in remaining even when a meld grown later would take it.
C25_LayoffPass ==
    LaidOff =>
        /\ LaidOffCards = Filter(layoff_deadwood, LAMBDA c : Contains(LaidOffCards, c))
        /\ Remaining = Filter(layoff_deadwood, LAMBDA c : ~Contains(LaidOffCards, c))
        /\ \A n \in 1..Len(layoff_deadwood) :
              Contains(LaidOffCards, layoff_deadwood[n]) <=>
                  TakenBy(GrownBefore(n - 1), layoff_deadwood[n])

\* a card was laid off that none of the melds takes as given, and a card
\* stays in remaining that a meld takes as grown at the end
C25_Witness ==
    /\ LaidOff
    /\ \E n \in 1..Len(LaidOffCards) : ~TakenBy(MeldSets, LaidOffCards[n])
    /\ \E n \in 1..Len(Remaining) :
          TakenBy(GrownBefore(Len(layoff_deadwood)), Remaining[n])

\* ------------------------------------------------------------------------
\* Properties of the layoff in a knock
\* ------------------------------------------------------------------------
\* C26: in a knock without gin the cards laid off are deadwood cards of the
\* opponent's analysis, each once, and none of the opponent's melds; the
\* other deadwood cards are those that layoff_cards leaves on the knocker's
\* melds, their summed value is the opponent_deadwood charged, and it is at
\* most the opponent's deadwood value before the layoff.
C26_ChargedDeadwood ==
    (KnockEnded /\ ~Result.reason.gin) =>
        LET opponent_analysis == analyze_hand(HandOf(Other(Knocker)))
            knocker_analysis == analyze_hand(HandOf(Knocker))
            laid == Result.reason.laid_off
            left == Filter(opponent_analysis.deadwood, LAMBDA c : ~Contains(laid, c))
        IN  /\ \A n \in 1..Len(laid) :
                  /\ Occurrences(opponent_analysis.deadwood, laid[n]) = 1
                  /\ Occurrences(laid, laid[n]) = 1
                  /\ \A i \in 1..Len(opponent_analysis.melds) :
                        ~MeldContains(opponent_analysis.melds[i], laid[n])
            /\ Len(left) + Len(laid) = Len(opponent_analysis.deadwood)
            /\ layoff_cards(opponent_analysis.deadwood, knocker_analysis.melds) = <<left, laid>>
            /\ Result.reason.opponent_deadwood = ValueOf(Range(left))
            /\ Result.reason.opponent_deadwood <= opponent_analysis.deadwood_value

\* a knock without gin in which the opponent laid off some deadwood cards
\* and kept others
C26_Witness ==
    /\ KnockEnded
    /\ ~Result.reason.gin
    /\ Result.reason.laid_off # <<>>
    /\ Result.reason.opponent_deadwood > 0
    /\ Result.reason.opponent_deadwood < OpponentDeadwood

\* ------------------------------------------------------------------------
\* The turn of the bot
\* ------------------------------------------------------------------------
\* a step that is a call of take_turn
TakeTurnStep == steps' # steps /\ last'.op = "take_turn"

\* what the call of take_turn of this step did
Turn == turn'[1]

DeadwoodOf(hand) == analyze_hand(hand).deadwood_value

\* the bot's hand between the draw and the discard of this step
HandAfterDraw ==
    Sort(Append(game.bot.hand,
                IF Turn.draws[1] = Stock THEN Last(game.stock) ELSE Last(game.discard)))

\* the turn chose its discard by the rule of the loop, not by the random branch
RuleDiscard ==
    /\ Turn.discards # <<>>
    /\ ~(Turn.difficulty = Easy /\ Turn.random # None)

\* C27: the bot draws from the stock when the discard pile is empty;
\* otherwise it draws from the discard pile exactly when the deadwood value
\* of its hand with the top discard added is less than or equal to the
\* deadwood value of its hand, and from the stock otherwise.
C27_DrawChoice ==
    [][TakeTurnStep /\ Turn.draws # <<>> =>
          Turn.draws[1] =
             IF game.discard = <<>> THEN Stock
             ELSE IF DeadwoodOf(Append(game.bot.hand, Last(game.discard)))
                        <= DeadwoodOf(game.bot.hand)
                  THEN Discard
                  ELSE Stock]_vars

\* a turn of the bot that drew from the discard pile, and ended with the
\* card it found there in its hand
C27_Witness ==
    /\ last.op = "take_turn"
    /\ turn # None
    /\ turn[1].draws = <<Discard>>
    /\ game.phase = AwaitDraw

C29_TurnCompletes ==
    [][TakeTurnStep /\ game.phase = AwaitDraw /\ game.current_player = Bot =>
          /\ Len(Turn.draws) = 1
          /\ Len(Turn.discards) =
                IF draw(game, Bot, Turn.draws[1]).r = RoundEnded THEN 0 ELSE 1
          /\ last'.result \in {Continue, RoundEnded}
          /\ \/ game'.phase = RoundOver
             \/ game'.phase = AwaitDraw /\ game'.current_player = Human
          /\ game'.phase # AwaitDiscard]_vars

\* a turn of one draw and one discard has given the turn to the human
C29_Witness ==
    /\ last.op = "take_turn"
    /\ last.result = Continue
    /\ turn # None
    /\ Len(turn[1].draws) = 1
    /\ Len(turn[1].discards) = 1
    /\ game.phase = AwaitDraw
    /\ game.current_player = Human

\* a turn whose draw ended the round made no discard
C29_RoundEndedByDraw ==
    /\ last.op = "take_turn"
    /\ last.result = RoundEnded
    /\ turn # None
    /\ turn[1].discards = <<>>
    /\ game.phase = RoundOver

\* ------------------------------------------------------------------------
\* The opening draw
\* ------------------------------------------------------------------------
\* the pairs that opening_draw pops from the shuffles, in the order it pops
\* them: each deck from its end, two cards at a time, the human's first
PairsOf(deck) ==
    [j \in 1..(Len(deck) \div 2) |->
        <<deck[Len(deck) - 2 * j + 2], deck[Len(deck) - 2 * j + 1]>>]

OpeningPairs == Flatten([k \in 1..Len(opening_shuffles) |-> PairsOf(opening_shuffles[k])])

\* C30: opening_draw only returns a pair of cards of different point values,
\* with the player of the higher card as starter; it is the first pair of
\* different values it draws, every pair of equal value before it (Ten and
\* King too) having been set aside; and the call leaves the Game as it was.
C30_OpeningDraw ==
    [][opening' # opening =>
          /\ game' = game
          /\ opening' # None
          /\ LET result == opening'[1]
                 human_val == CardValue(result.human_card)
                 bot_val == CardValue(result.bot_card)
             IN  /\ human_val # bot_val
                 /\ human_val > bot_val => result.starter = Human
                 /\ bot_val > human_val => result.starter = Bot
                 /\ \E n \in 1..Len(OpeningPairs) :
                       /\ OpeningPairs[n] = <<result.human_card, result.bot_card>>
                       /\ \A m \in 1..(n - 1) :
                             CardValue(OpeningPairs[m][1]) = CardValue(OpeningPairs[m][2])]_vars

\* opening_draw has returned after a first pair of two ranks worth 10 each
C30_Witness ==
    /\ opening # None
    /\ RankOf(OpeningPairs[1][1]) # RankOf(OpeningPairs[1][2])
    /\ CardValue(OpeningPairs[1][1]) = 10
    /\ CardValue(OpeningPairs[1][2]) = 10
    /\ CardValue(opening[1].human_card) # CardValue(opening[1].bot_card)

\* opening_draw has returned a pair of the second shuffle, after a first
\* shuffle of ties only, and the bot starts
C30_Reshuffled ==
    /\ opening # None
    /\ Len(opening_shuffles) = 2
    /\ opening_shuffles[1] = RankMajorDeck
    /\ opening[1].starter = Bot

\* ------------------------------------------------------------------------
\* What a call leaves alone
\* ------------------------------------------------------------------------
\* the field of the Game that holds the player
PlayerField(id) == IF id = Human THEN "human" ELSE "bot"

\* the step is a call that changed the Game
Changed == steps' # steps

\* every field of the Game outside fields is as it was
OnlyChanges(fields) == \A f \in (DOMAIN game) \ fields : game'[f] = game[f]

\* C31: a draw that does not end the round changes only the hand of the
\* player who draws, the pile drawn from and the phase; a discard without
\* knock changes only the hand of the player who discards, the discard pile,
\* current_player and the phase; the scoreboard and the dealer change only
\* in a step that ends the round.
C31_Frame ==
    [][/\ Changed /\ last'.op = "draw" /\ last'.result = Continue =>
             \E pile \in {"stock", "discard"} :
                OnlyChanges({PlayerField(last'.player), pile, "phase"})
       /\ Changed /\ last'.op = "discard" /\ last'.result = Continue =>
             OnlyChanges({PlayerField(last'.player), "discard", "current_player", "phase"})
       /\ game'.scoreboard # game.scoreboard \/ game'.dealer # game.dealer =>
             game.phase # RoundOver /\ game'.phase = RoundOver]_vars

\* the human and then the bot have drawn and discarded without knock
C31_Witness ==
    /\ last.op = "discard"
    /\ last.player = Bot
    /\ last.result = Continue
    /\ steps = 4
    /\ game.phase = AwaitDraw
    /\ game.current_player = Human

\* the card that the step took out of the hand of id
Left(id) == Range(player(game, id).hand) \ Range(player(game', id).hand)

\* the card that the step put into the hand of id
Came(id) == Range(player(game', id).hand) \ Range(player(game, id).hand)

\* the step is a draw that gave a card
DrawStep ==
    /\ Changed
    /\ last'.op = "draw"
    /\ player(game', last'.player).hand # player(game, last'.player).hand

\* C32: both piles are last in, first out: a discard puts the card at the
\* end of the discard pile, start_round leaves the starter card alone on it,
\* and a draw gives the player the last card of the pile it draws from (of
\* the discard pile: the card last put there) and leaves the cards below it
\* in their order.
C32_Lifo ==
    [][/\ DrawStep =>
             \/ /\ game.stock # <<>>
                /\ Came(last'.player) = {game.stock[Len(game.stock)]}
                /\ game'.stock = SubSeq(game.stock, 1, Len(game.stock) - 1)
                /\ game'.discard = game.discard
             \/ /\ game.discard # <<>>
                /\ Came(last'.player) = {game.discard[Len(game.discard)]}
                /\ game'.discard = SubSeq(game.discard, 1, Len(game.discard) - 1)
                /\ game'.stock = game.stock
       /\ Changed /\ last'.op = "discard" =>
             /\ Len(game'.discard) = Len(game.discard) + 1
             /\ SubSeq(game'.discard, 1, Len(game.discard)) = game.discard
             /\ Left(last'.player) = {game'.discard[Len(game'.discard)]}
             /\ game'.stock = game.stock
       /\ Changed /\ last'.op = "start_next_round" => Len(game'.discard) = 1]_vars

\* a player has drawn from a discard pile of two cards, the starter card and
\* the other's discard on it, and holds that discard
C32_Witness ==
    /\ last.op = "draw"
    /\ last.result = Continue
    /\ Len(game.discard) = 1
    /\ Len(game.stock) = 30
    /\ steps = 3

\* C33: when a round ends, the hands stored in pending_round are the hands
\* of the two players at that moment: 10 cards each, 11 for the winner of a
\* Big Gin; and while the phase stays RoundOver neither the hands nor what
\* is stored change.
C33_Snapshots ==
    [][/\ RoundEnds =>
             /\ game'.pending_round # None
             /\ game'.pending_round[1].human_hand = game'.human.hand
             /\ game'.pending_round[1].bot_hand = game'.bot.hand
             /\ \A id \in PlayerId :
                   Len(player(game', id).hand) =
                      IF /\ game'.pending_round[1].reason.kind = "BigGin"
                         /\ game'.pending_round[1].winner = id
                      THEN 11 ELSE 10
       /\ game.phase = RoundOver /\ game'.phase = RoundOver =>
             /\ game'.human.hand = game.human.hand
             /\ game'.bot.hand = game.bot.hand
             /\ game'.pending_round = game.pending_round]_vars

\* C34: the bot makes no call that the Game refuses: it does not draw from
\* an empty discard pile, the index it discards is in its hand, a knock it
\* declares is accepted, it declares none when it discards at random, and so
\* take_turn returns no error.
C34_BotLegal ==
    [][TakeTurnStep =>
          /\ \A k \in 1..Len(Turn.draws) :
                Turn.draws[k] = Discard => game.discard # <<>>
          /\ \A k \in 1..Len(Turn.discards) :
                /\ Turn.discards[k][1] < Len(HandAfterDraw)
                /\ Turn.discards[k][2] => last'.result = RoundEnded
                /\ Turn.difficulty = Easy /\ Turn.random # None => ~Turn.discards[k][2]
          /\ last'.result \in {Continue, RoundEnded}]_vars

\* an Easy bot has discarded at random, the last card of its hand, and the
\* game goes on
C34_Witness ==
    /\ last.op = "take_turn"
    /\ last.result = Continue
    /\ turn # None
    /\ turn[1].difficulty = Easy
    /\ turn[1].random = Some(10)
    /\ turn[1].discards = << <<10, FALSE>> >>
    /\ Len(game.bot.hand) = 10

\* ------------------------------------------------------------------------
\* The piles and the scores over a session
\* ------------------------------------------------------------------------
\* C35: whenever the phase is AwaitDraw the discard pile holds a card, so no
\* draw fails on an empty discard pile; the pile is empty only after a
\* player took its single card and before that player discards: the phase
\* is AwaitDiscard, or the card made Big Gin and the round is over.
C35_DiscardPile ==
    /\ game.phase = AwaitDraw => game.discard # <<>>
    /\ last.result # ErrDiscardEmpty
    /\ game.discard = <<>> =>
          /\ Len(player(game, game.current_player).hand) = 11
          /\ \/ game.phase = AwaitDiscard
             \/ /\ game.phase = RoundOver
                /\ game.pending_round # None
                /\ game.pending_round[1].reason.kind = "BigGin"

\* the first player has taken the starter card and is to discard
C35_Witness ==
    /\ game.discard = <<>>
    /\ game.phase = AwaitDiscard
    /\ last.op = "draw"
    /\ last.result = Continue

\* the points of a knock before the clamp and the absolute value, from the
\* deadwood values that the result records
PointsBeforeClamp(reason) ==
    IF reason.undercut THEN (reason.knocker_deadwood - reason.opponent_deadwood) + 25
    ELSE IF reason.gin THEN (reason.opponent_deadwood - reason.knocker_deadwood) + 25
    ELSE reason.opponent_deadwood - reason.knocker_deadwood

\* the same of every knock that resolve_knock accepts: a knocker's deadwood
\* of 0 to 10 against 0 to 100, the most that 10 cards are worth
EveryKnockScores ==
    \A knocker \in PlayerId, knocker_deadwood \in 0..10, opponent_deadwood \in 0..100 :
        LET gin == knocker_deadwood = 0
            outcome == KnockOutcome(knocker, knocker_deadwood, opponent_deadwood, gin)
            before == PointsBeforeClamp([knocker_deadwood |-> knocker_deadwood,
                                         opponent_deadwood |-> opponent_deadwood,
                                         gin |-> gin, undercut |-> outcome.undercut])
        IN  /\ before >= 1
            /\ gin \/ outcome.undercut => before >= 25
            /\ outcome.points = before
            /\ Abs(outcome.points) = before

\* C36: the result of a round has at least 1 point when it has a winner (at
\* least 25 for gin and for an undercut, at least 31 for Big Gin) and 0 when
\* it has none; the points of a knock before the clamp are not negative and
\* are the points awarded; and the point total of a player never decreases.
C36_Points ==
    [][/\ RoundEnds =>
             LET result == game'.pending_round[1]
                 reason == result.reason
             IN  /\ result.winner \in PlayerId => result.points_awarded >= 1
                 /\ result.winner \notin PlayerId => result.points_awarded = 0
                 /\ reason.kind = "BigGin" =>
                       result.winner \in PlayerId /\ result.points_awarded >= 31
                 /\ reason.kind = "StockDepleted" => result.winner \notin PlayerId
                 /\ reason.kind = "Knock" =>
                       /\ result.winner \in PlayerId
                       /\ reason.gin \/ reason.undercut => result.points_awarded >= 25
                       /\ PointsBeforeClamp(reason) >= 0
                       /\ result.points_awarded = PointsBeforeClamp(reason)
                       /\ EveryKnockScores
       /\ game'.scoreboard.human >= game.scoreboard.human
       /\ game'.scoreboard.bot >= game.scoreboard.bot]_vars

\* the bot has won a round by a knock without gin or undercut
C36_Witness ==
    /\ KnockEnded
    /\ Result.winner = Bot
    /\ ~Result.reason.gin
    /\ ~Result.reason.undercut
    /\ Result.points_awarded >= 1
    /\ game.scoreboard.bot = Result.points_awarded

\* C37: from a fresh scoreboard, rounds_played is always the sum of
\* human_hands_won, bot_hands_won and draws, and it counts the steps into
\* RoundOver: it is 0 at first, one more after each such step and the same
\* after every other step.
C37_RoundsPlayed ==
    /\ game.scoreboard.rounds_played = 0
    /\ [](game.scoreboard.rounds_played =
             game.scoreboard.human_hands_won + game.scoreboard.bot_hands_won
                + game.scoreboard.draws)
    /\ [][game'.scoreboard.rounds_played =
             IF RoundEnds THEN game.scoreboard.rounds_played + 1
             ELSE game.scoreboard.rounds_played]_vars

\* a round has ended with the stock depleted and the next round is dealt:
\* one round played, a draw
C37_Witness ==
    /\ game.scoreboard.rounds_played = 1
    /\ game.scoreboard.draws = 1
    /\ game.phase = AwaitDraw

\* the step is a call of draw on the stock that changed the Game: a draw from
\* the discard pile always takes a card off that pile
StockDrawStep == Changed /\ last'.op = "draw" /\ game'.discard = game.discard

\* C38: within one round the stock never grows and a draw from the stock that
\* gives a card lowers it by exactly one; a deal leaves 31 cards and the
\* stock never goes below its reserve of 2, so at most 29 draws from the
\* stock give a card in a round, each draw from a stock above the reserve
\* gives one, and a draw from the stock at the reserve ends the round as
\* StockDepleted.
C38_StockDraws ==
    /\ [](Len(game.stock) \in 2..31)
    /\ [][/\ IF Changed /\ last'.op = "start_next_round"
             THEN Len(game'.stock) = 31
             ELSE Len(game'.stock) <= Len(game.stock)
          /\ DrawStep =>
                Len(game'.stock) \in {Len(game.stock), Len(game.stock) - 1}
          /\ (StockDrawStep /\ Len(game.stock) > 2) =>
                /\ DrawStep
                /\ Len(game'.stock) = Len(game.stock) - 1
          /\ (StockDrawStep /\ Len(game.stock) = 2) =>
                /\ game'.phase = RoundOver
                /\ game'.pending_round # None
                /\ game'.pending_round[1].reason.kind = "StockDepleted"
                /\ game'.stock = game.stock
                /\ game'.human = game.human /\ game'.bot = game.bot]_vars

\* after 29 draws from the stock the next one has ended the round
C38_Witness ==
    /\ last.op = "draw" /\ last.result = RoundEnded
    /\ game.phase = RoundOver /\ HasResult
    /\ Result.reason.kind = "StockDepleted"
    /\ Len(game.stock) = 2
    /\ Len(game.discard) = 30
    /\ steps = 59

\* the index in hand of card
PositionOf(hand, card) == (CHOOSE i \in 1..Len(hand) : hand[i] = card) - 1

\* the turn in which the player to move takes the top of the discard pile
\* and discards it again
IdleTurn(g) ==
    CHOOSE r \in {discard(taken.g, g.current_player,
                          PositionOf(player(taken.g, g.current_player).hand,
                                     g.discard[Len(g.discard)]),
                          FALSE)
                  : taken \in {draw(g, g.current_player, Discard)}} : TRUE

\* C39: with players who keep taking legal turns and choose a draw from the
\* stock again and again, every round reaches RoundOver; a draw from the
\* discard pile is accepted also with the stock at its reserve of 2 cards,
\* and a turn that takes the top of the discard pile and discards it again
\* is a legal turn after which only the player to move has changed, so two
\* such turns lead back to the same Game and the round need not end. A draw
\* from the stock is accepted and changes the Game whenever a draw is due.
C39_RoundsEnd ==
    /\ (game.phase # RoundOver) ~> (game.phase = RoundOver)
    /\ [](game.phase = AwaitDraw =>
            \E out \in {draw(game, game.current_player, Stock)} :
               Accepted(out.r) /\ out.g # game)
    /\ []((game.phase = AwaitDraw /\ Len(game.stock) = 2) =>
            \E out \in {draw(game, game.current_player, Discard)} :
               /\ out.r = Continue
               /\ out.g.phase = AwaitDiscard
               /\ out.g.stock = game.stock
               /\ Len(out.g.discard) = Len(game.discard) - 1)
    /\ [](game.phase = AwaitDraw =>
            /\ IdleTurn(game).r = Continue
            /\ IdleTurn(game).g =
                  [game EXCEPT !.current_player = Other(game.current_player)]
            /\ IdleTurn(IdleTurn(game).g).r = Continue
            /\ IdleTurn(IdleTurn(game).g).g = game)

\* a card was drawn from the discard pile with the stock at its reserve
C39_Witness ==
    /\ game.phase = AwaitDiscard
    /\ last.op = "draw" /\ last.result = Continue
    /\ Len(game.stock) = 2
    /\ Len(game.discard) = 29
    /\ game.scoreboard.rounds_played = 1

\* a round has ended by the draw from the stock at its reserve
C39_RoundOver ==
    /\ game.phase = RoundOver /\ HasResult
    /\ Result.reason.kind = "StockDepleted"
    /\ last.op = "draw" /\ last.result = RoundEnded
    /\ game.scoreboard.rounds_played = MaxRounds

====
